---------------------------- MODULE Spec2Model ----------------------------
(***************************************************************************)
(* LSB steganography of a monochrome credential matrix in the blue channel *)
(* of a cover image (lsb_steganography.py) and the document-bound security *)
(* layer around it (security_utils.py).                                     *)
(*                                                                         *)
(* Bit strings ('0'/'1' characters in the source) are sequences over       *)
(* {0, 1}.  An RGB image is a record [w, h, px] whose px lists the pixels  *)
(* <<r, g, b>> in raster order, so that getpixel((x, y)) is                *)
(* px[y * w + x + 1].  A mode-'1' image is a record [w, h, cells] with     *)
(* cells in {0, 255} (0 = black, 255 = white) in the same order.           *)
(***************************************************************************)
EXTENDS Integers, Sequences, FiniteSets, TLC

(***************************************************************************)
(* Program constants.                                                      *)
(***************************************************************************)
HEADER_TERMINATOR_BIN == <<0, 0, 0, 0, 0, 0, 0, 0>>
HEADER_TERMINATOR_LEN == Len(HEADER_TERMINATOR_BIN)
SECURITY_HEADER_LENGTH == 80
TEN_YEARS == 10 * 365 * 24 * 3600

NoFile == [w |-> 0, h |-> 0, px |-> <<>>, exists |-> FALSE]
NoMatrix == [w |-> 0, h |-> 0, cells |-> <<>>]

(***************************************************************************)
(* Small arithmetic helpers.                                               *)
(***************************************************************************)
Min(a, b) == IF a <= b THEN a ELSE b
Abs(a) == IF a < 0 THEN 0 - a ELSE a

\* int(math.sqrt(n)) for n >= 0: the largest s with s * s <= n.
RECURSIVE IsqrtFrom(_, _)
IsqrtFrom(n, s) == IF (s + 1) * (s + 1) > n THEN s ELSE IsqrtFrom(n, s + 1)
Isqrt(n) == IsqrtFrom(n, 0)

Zeros(n) == [i \in 1..n |-> 0]

(***************************************************************************)
(* Bit-level codec.                                                        *)
(***************************************************************************)
\* The binary digits of a non-negative integer, most significant first,
\* without padding ("0" for 0).
RECURSIVE BinDigits(_)
BinDigits(n) == IF n < 2 THEN <<n>> ELSE BinDigits(n \div 2) \o <<n % 2>>

\* format(integer, '0{bits}b'): left-padded with zeros to at least `bits`
\* digits; a value that needs more digits is NOT truncated.
_int_to_binary(integer, bits) ==
    LET d == BinDigits(integer)
    IN  IF Len(d) >= bits THEN d ELSE Zeros(bits - Len(d)) \o d

\* int(binary_string, 2)
RECURSIVE _binary_to_int(_)
_binary_to_int(s) ==
    IF Len(s) = 0 THEN 0
    ELSE 2 * _binary_to_int(SubSeq(s, 1, Len(s) - 1)) + s[Len(s)]

_embed_bit_low_two(pixel_value, bit) ==
    IF bit = 0 THEN pixel_value - (pixel_value % 4)
    ELSE pixel_value - (pixel_value % 4) + 1

\* pixel_value & 254 for bit '0', pixel_value | 1 for bit '1'
_embed_bit(pixel_value, bit) ==
    IF bit = 0 THEN pixel_value - (pixel_value % 2)
    ELSE pixel_value - (pixel_value % 2) + 1

\* '1' if pixel_value % 2 == 1 else '0'
_extract_lsb(pixel_value) == IF pixel_value % 2 = 1 THEN 1 ELSE 0

(***************************************************************************)
(* Integers wider than 32-bit machine integers.  Python integers           *)
(* are unbounded; a 32-bit header field is kept as the pair                *)
(* <<high 16 bits, low 16 bits>>, which is equal for two fields exactly    *)
(* when the integers are equal.                                            *)
(***************************************************************************)
ToWide(n) == <<n \div 65536, n % 65536>>

\* _binary_to_int of a 32-character bit string, as a wide integer
_binary_to_wide(s) ==
    <<_binary_to_int(SubSeq(s, 1, 16)), _binary_to_int(SubSeq(s, 17, 32))>>

\* abs(current_time - extracted_timestamp) <= limit, for a wide timestamp
\* and current_time, limit below 2^31
WideTimeDiffWithin(current_time, ts, limit) ==
    IF ts[1] < 32768
    THEN Abs(current_time - (ts[1] * 65536 + ts[2])) <= limit
    ELSE ((ts[1] - 32768) * 65536 + ts[2])
             <= (limit - 1) - (2147483647 - current_time)

(***************************************************************************)
(* CRC-16 (polynomial 0x1021, initial value 0xFFFF) over a byte sequence.  *)
(***************************************************************************)
RECURSIVE XorBits(_, _, _)
XorBits(a, b, n) ==
    IF n = 0 THEN 0
    ELSE (((a % 2) + (b % 2)) % 2) + 2 * XorBits(a \div 2, b \div 2, n - 1)

Xor16(a, b) == XorBits(a, b, 16)

\* one pass of the inner loop: shift left, reduce by the polynomial when the
\* top bit was set, keep 16 bits
CrcShift(crc) ==
    IF crc >= 32768 THEN Xor16((crc * 2) % 65536, 4129)
    ELSE (crc * 2) % 65536

RECURSIVE CrcShiftN(_, _)
CrcShiftN(crc, n) == IF n = 0 THEN crc ELSE CrcShiftN(CrcShift(crc), n - 1)

\* crc ^= (byte << 8), then eight shifts
CrcByte(crc, byte) == CrcShiftN(Xor16(crc, byte * 256), 8)

\* The loop over the bytes; crcs[i + 1] is the register after i bytes.
RECURSIVE CrcFold(_, _)
CrcFold(crcs, data) ==
    IF Len(crcs) > Len(data) THEN crcs[Len(crcs)]
    ELSE CrcFold(Append(crcs, CrcByte(crcs[Len(crcs)], data[Len(crcs)])), data)

_calculate_crc16(data) == CrcFold(<<65535>>, data)

(***************************************************************************)
(* Text encodings used to build the checksum input.                        *)
(***************************************************************************)
\* the UTF-8 bytes of a '0'/'1' string
BitChars(bits) == [i \in 1..Len(bits) |-> 48 + bits[i]]

\* str(n).encode() for n >= 0: the ASCII decimal digits
RECURSIVE DecimalChars(_)
DecimalChars(n) ==
    IF n < 10 THEN <<48 + n>> ELSE DecimalChars(n \div 10) \o <<48 + (n % 10)>>

\* The same for a wide integer n = <<high 16 bits, low 16 bits>>:
\* n // 10, n % 10 and str(n).encode().
WideDivTen(n) == <<n[1] \div 10, ((n[1] % 10) * 65536 + n[2]) \div 10>>
WideModTen(n) == ((n[1] % 10) * 65536 + n[2]) % 10

RECURSIVE WideDecimalChars(_)
WideDecimalChars(n) ==
    IF n[1] = 0 /\ n[2] < 10 THEN <<48 + n[2]>>
    ELSE WideDecimalChars(WideDivTen(n)) \o <<48 + WideModTen(n)>>

\* format(n, '032b') of a wide integer below 2^32
WideToBinary32(n) == _int_to_binary(n[1], 16) \o _int_to_binary(n[2], 16)

(***************************************************************************)
(* Document keys of the model, as byte strings, with the first four bytes  *)
(* of their SHA-256 digests (big-endian).  SHA-256 truncated to 32 bits is *)
(* many-to-one: "UF8" and "B9R7" are two keys with the same prefix.        *)
(***************************************************************************)
KEY_A == <<85, 70, 56>>          \* "UF8"
KEY_B == <<66, 57, 82, 55>>      \* "B9R7"
KEY_C == <<75, 69, 89>>          \* "KEY"
Keys == {KEY_A, KEY_B, KEY_C}

\* int.from_bytes(hashlib.sha256(key.encode('utf-8')).digest()[:4], 'big')
Sha256Prefix32(key) ==
    CASE key = KEY_A -> 136582793
      [] key = KEY_B -> 136582793
      [] key = KEY_C -> 1554137093

(***************************************************************************)
(* Images.                                                                 *)
(***************************************************************************)
\* stego_img.getpixel((x, y)) of an RGB image
getpixel(img, x, y) == img.px[y * img.w + x + 1]

\* qr_img.getpixel((x, y)) of a mode-'1' image
getcell(qr, x, y) == qr.cells[y * qr.w + x + 1]

\* The (x, y) visited by "for y in range(height): for x in range(width)".
RasterCoords(width, height) ==
    [k \in 1..(width * height) |-> <<(k - 1) % width, (k - 1) \div width>>]

\* The blue LSBs of an image in raster order: the embedded bit stream.
BlueLsbs(img) ==
    LET c == RasterCoords(img.w, img.h)
    IN  [k \in 1..Len(c) |-> _extract_lsb(getpixel(img, c[k][1], c[k][2])[3])]

\* "".join('1' if qr_img.getpixel((x, y)) == 0 else '0'
\*         for y in range(qr_height) for x in range(qr_width))
QrBitsOf(qr) ==
    LET c == RasterCoords(qr.w, qr.h)
    IN  [k \in 1..Len(c) |-> IF getcell(qr, c[k][1], c[k][2]) = 0 THEN 1 ELSE 0]

\* Image.new('1', (qr_width, qr_height)) filled cell by cell in raster
\* order: bit '1' -> putpixel 0 (black), bit '0' -> putpixel 255 (white)
ReconstructQr(qr_width, qr_height, qr_bits) ==
    [w |-> qr_width, h |-> qr_height,
     cells |-> [k \in 1..(qr_width * qr_height) |->
                   IF qr_bits[k] = 1 THEN 0 ELSE 255]]

\* qr_img.resize((new_size, new_size), Resampling.NEAREST): the output cell
\* (x, y) takes the source cell under its centre,
\* (floor((x + 0.5) * w / new_size), floor((y + 0.5) * h / new_size)).
ResizeNearest(qr, new_size) ==
    LET c == RasterCoords(new_size, new_size)
    IN  [w |-> new_size, h |-> new_size,
         cells |-> [k \in 1..Len(c) |->
                      getcell(qr,
                              ((2 * c[k][1] + 1) * qr.w) \div (2 * new_size),
                              ((2 * c[k][2] + 1) * qr.h) \div (2 * new_size))]]

\* The embedding loop: pixel k (raster order) takes bit k in its blue LSB
\* while bits remain; red, green and the later pixels are left as they are.
EmbedLoop(cover_img, data_bits) ==
    [w |-> cover_img.w, h |-> cover_img.h,
     px |-> [k \in 1..Len(cover_img.px) |->
               IF k <= Len(data_bits)
               THEN <<cover_img.px[k][1], cover_img.px[k][2],
                      _embed_bit(cover_img.px[k][3], data_bits[k])>>
               ELSE cover_img.px[k]],
     exists |-> TRUE]

(***************************************************************************)
(* Capacity planning.                                                      *)
(***************************************************************************)
\* A message built by an f-string: the template it comes from and the
\* numbers formatted into it, in order.
Message(template, numbers) == [template |-> template, numbers |-> numbers]
NoError == Message("", <<>>)

WarningBandInclusive(total_bits_needed, image_capacity) ==
    IF total_bits_needed > image_capacity THEN "too_large"
    ELSE IF total_bits_needed * 100 >= 90 * image_capacity THEN "very_high"
    ELSE IF total_bits_needed * 100 >= 75 * image_capacity THEN "high"
    ELSE IF total_bits_needed * 100 >= 50 * image_capacity THEN "medium"
    ELSE ""

\* The advisory band of a utilisation total/capacity * 100 (a float).  The
\* float comparison with 90, 75 and 50 agrees with the comparison of the
\* integers below for every capacity up to 2,000,000.
WarningBand(total_bits_needed, image_capacity) ==
    IF total_bits_needed > image_capacity THEN "too_large"
    ELSE IF total_bits_needed * 100 > 90 * image_capacity THEN "very_high"
    ELSE IF total_bits_needed * 100 > 75 * image_capacity THEN "high"
    ELSE IF total_bits_needed * 100 > 50 * image_capacity THEN "medium"
    ELSE ""

validate_qr_for_image_exact_fit(qr_width, qr_height, image_width, image_height) ==
    LET header_bits == 16 + 16 + HEADER_TERMINATOR_LEN
        qr_bits == qr_width * qr_height
        total_bits_needed == header_bits + qr_bits
        image_capacity == image_width * image_height
    IN  [qr_bits |-> qr_bits,
         total_bits_needed |-> total_bits_needed,
         image_capacity |-> image_capacity,
         header_bits |-> header_bits,
         valid |-> total_bits_needed = image_capacity,
         remaining_capacity |-> image_capacity - total_bits_needed,
         warning |-> Message(WarningBand(total_bits_needed, image_capacity),
                             IF total_bits_needed > image_capacity
                             THEN <<0 - (image_capacity - total_bits_needed)>>
                             ELSE <<>>)]

validate_qr_for_image_payload_only(qr_width, qr_height, image_width, image_height) ==
    LET header_bits == 16 + 16 + HEADER_TERMINATOR_LEN
        qr_bits == qr_width * qr_height
        total_bits_needed == header_bits + qr_bits
        image_capacity == image_width * image_height
    IN  [qr_bits |-> qr_bits,
         total_bits_needed |-> total_bits_needed,
         image_capacity |-> image_capacity,
         header_bits |-> header_bits,
         valid |-> qr_bits <= image_capacity,
         remaining_capacity |-> image_capacity - total_bits_needed,
         warning |-> Message(WarningBand(total_bits_needed, image_capacity),
                             IF total_bits_needed > image_capacity
                             THEN <<0 - (image_capacity - total_bits_needed)>>
                             ELSE <<>>)]

validate_qr_for_image(qr_width, qr_height, image_width, image_height) ==
    LET header_bits == 16 + 16 + HEADER_TERMINATOR_LEN
        qr_bits == qr_width * qr_height
        total_bits_needed == header_bits + qr_bits
        image_capacity == image_width * image_height
    IN  [qr_bits |-> qr_bits,
         total_bits_needed |-> total_bits_needed,
         image_capacity |-> image_capacity,
         header_bits |-> header_bits,
         valid |-> total_bits_needed <= image_capacity,
         remaining_capacity |-> image_capacity - total_bits_needed,
         \* "... Kekurangan {-remaining_capacity} bit." when not valid
         warning |-> Message(WarningBand(total_bits_needed, image_capacity),
                             IF total_bits_needed > image_capacity
                             THEN <<0 - (image_capacity - total_bits_needed)>>
                             ELSE <<>>)]

_resize_qr_for_capacity_always_square(qr_img, max_capacity) ==
    LET available_bits_for_qr == max_capacity - (16 + 16 + HEADER_TERMINATOR_LEN)
        new_dimension == Isqrt(available_bits_for_qr)
    IN  IF available_bits_for_qr <= 0
        THEN [qr |-> qr_img, raised |-> TRUE,
              error |-> Message("header_does_not_fit", <<>>)]
        ELSE [qr |-> ResizeNearest(qr_img, new_dimension), raised |-> FALSE,
              error |-> NoError]

\* Returns [raised, qr, error]: raised when not even the header fits, with
\* the message of the ValueError ("Kapasitas cover image terlalu kecil
\* bahkan untuk header saja.", which holds no number).
_resize_qr_for_capacity(qr_img, max_capacity) ==
    LET available_bits_for_qr == max_capacity - (16 + 16 + HEADER_TERMINATOR_LEN)
        new_dimension == Isqrt(available_bits_for_qr)
    IN  IF available_bits_for_qr <= 0
        THEN [qr |-> qr_img, raised |-> TRUE,
              error |-> Message("header_does_not_fit", <<>>)]
        ELSE IF qr_img.w <= new_dimension /\ qr_img.h <= new_dimension
        THEN [qr |-> qr_img, raised |-> FALSE, error |-> NoError]
        ELSE [qr |-> ResizeNearest(qr_img, new_dimension), raised |-> FALSE,
              error |-> NoError]

(***************************************************************************)
(* embed_qr_to_image: the outcome of one call.  outcome is "saved" (the    *)
(* stego image was written), "returned_unsaved" (the function returned     *)
(* normally without writing the file) or "ValueError"; image is the stego  *)
(* image in memory, qr the matrix whose bits went into the stream.         *)
(***************************************************************************)
embed_qr_to_image(cover_img, qr_in, resize_qr_if_needed) ==
    LET max_capacity == cover_img.w * cover_img.h
        validation_result ==
            validate_qr_for_image(qr_in.w, qr_in.h, cover_img.w, cover_img.h)
        resized == _resize_qr_for_capacity(qr_in, max_capacity)
        failed(q, e) == [bits |-> <<>>, qr |-> q,
                         error |-> e, outcome |-> "ValueError", image |-> cover_img]
    IN  IF ~validation_result.valid /\ ~resize_qr_if_needed
        \* f"Kapasitas citra tidak cukup. {validation_result['warning']}"
        THEN failed(qr_in, Message("capacity", validation_result.warning.numbers))
        ELSE IF ~validation_result.valid /\ resized.raised
        THEN failed(qr_in, resized.error)
        ELSE
          LET qr1 == IF validation_result.valid THEN qr_in ELSE resized.qr
              again == _resize_qr_for_capacity(qr1, max_capacity)
              over == 16 + 16 + HEADER_TERMINATOR_LEN + qr1.w * qr1.h > max_capacity
          IN  IF over /\ ~resize_qr_if_needed
              \* f"... Dibutuhkan: {total_bits_needed} bits, Tersedia: ..."
              THEN failed(qr1, Message("needed_available",
                                       <<16 + 16 + HEADER_TERMINATOR_LEN
                                           + qr1.w * qr1.h, max_capacity>>))
              ELSE IF over /\ again.raised THEN failed(qr1, again.error)
              ELSE
                LET qr_img == IF over THEN again.qr ELSE qr1
                    qr_bits == QrBitsOf(qr_img)
                    header_bits == _int_to_binary(qr_img.w, 16)
                                     \o _int_to_binary(qr_img.h, 16)
                                     \o HEADER_TERMINATOR_BIN
                    final_validation ==
                        validate_qr_for_image(qr_img.w, qr_img.h,
                                              cover_img.w, cover_img.h)
                    data_bits == header_bits \o qr_bits
                IN  IF ~final_validation.valid
                    THEN failed(qr_img, Message("capacity_after_resize",
                                                final_validation.warning.numbers))
                    ELSE [bits |-> data_bits,
                          qr |-> qr_img,
                          error |-> NoError,
                          outcome |->
                              \* the image is saved in the StopIteration
                              \* handler, reached only when a pixel is left
                              \* after the last bit
                              IF Len(data_bits) < max_capacity
                              THEN "saved" ELSE "returned_unsaved",
                          image |-> EmbedLoop(cover_img, data_bits)]

(***************************************************************************)
(* extract_qr_from_image.                                                  *)
(***************************************************************************)
\* The header search.  After the k-th pixel was read (k = len(extracted_bits))
\* the loop stops when k >= 40 and either the last 8 bits are the terminator
\* or k is past the search limit 40 + 500; it ends "found" (terminator at
\* k = 40), "bad_length" (terminator ending at a k > 40), "no_terminator"
\* (limit passed) or "not_found" (the image ran out of pixels first).
\* read is the number of pixels read.
ScanHeaderAnyTerminator(lsbs) ==
    LET num_header_bits == 16 + 16 + HEADER_TERMINATOR_LEN
        ends_with_terminator(k) ==
            SubSeq(lsbs, k - HEADER_TERMINATOR_LEN + 1, k) = HEADER_TERMINATOR_BIN
        stops == {k \in num_header_bits..Min(Len(lsbs), num_header_bits + 501) :
                     ends_with_terminator(k) \/ k > num_header_bits + 500}
    IN  IF stops = {} THEN [status |-> "not_found", read |-> Len(lsbs)]
        ELSE
          LET k == CHOOSE m \in stops : \A n \in stops : m <= n
          IN  IF ends_with_terminator(k)
              THEN [status |-> "found", read |-> k]
              ELSE [status |-> "no_terminator", read |-> k]

ScanHeader(lsbs) ==
    LET num_header_bits == 16 + 16 + HEADER_TERMINATOR_LEN
        ends_with_terminator(k) ==
            SubSeq(lsbs, k - HEADER_TERMINATOR_LEN + 1, k) = HEADER_TERMINATOR_BIN
        stops == {k \in num_header_bits..Min(Len(lsbs), num_header_bits + 501) :
                     ends_with_terminator(k) \/ k > num_header_bits + 500}
    IN  IF stops = {} THEN [status |-> "not_found", read |-> Len(lsbs)]
        ELSE
          LET k == CHOOSE m \in stops : \A n \in stops : m <= n
          IN  IF ends_with_terminator(k)
              THEN IF k - HEADER_TERMINATOR_LEN = 32
                   THEN [status |-> "found", read |-> k]
                   ELSE [status |-> "bad_length", read |-> k]
              ELSE [status |-> "no_terminator", read |-> k]

\* itertools.islice(((x_, y_) for y_ in range(start_y, height)
\*                   for x_ in range(width)
\*                   if y_ > start_y or (y_ == start_y and x_ >= start_x)), n)
PixelIteratorPastStart(width, height, start_y, start_x, n) ==
    LET all == SelectSeq(RasterCoords(width, height),
                         LAMBDA c: c[2] >= start_y
                                   /\ (c[2] > start_y
                                       \/ (c[2] = start_y /\ c[1] > start_x)))
    IN  SubSeq(all, 1, Min(n, Len(all)))

PixelIterator(width, height, start_y, start_x, n) ==
    LET all == SelectSeq(RasterCoords(width, height),
                         LAMBDA c: c[2] >= start_y
                                   /\ (c[2] > start_y
                                       \/ (c[2] = start_y /\ c[1] >= start_x)))
    IN  SubSeq(all, 1, Min(n, Len(all)))

NoValidation ==
    [key_valid |-> FALSE, timestamp_valid |-> FALSE, checksum_valid |-> FALSE,
     overall_valid |-> FALSE, security_score |-> 0]

\* The result of an extraction: outcome "saved" (the reconstructed matrix
\* qr was written) or the kind of error; read is the number of pixels the
\* header search read.
ExtractFailure(kind, read) ==
    [qr |-> NoMatrix, qr_width |-> 0, qr_height |-> 0, outcome |-> kind,
     read |-> read, validation |-> NoValidation]

extract_qr_from_image(stego_file) ==
    IF ~stego_file.exists THEN ExtractFailure("FileNotFoundError", 0)
    ELSE
      LET width == stego_file.w
          height == stego_file.h
          lsbs == BlueLsbs(stego_file)
          scan == ScanHeader(lsbs)
      IN  IF scan.status # "found" THEN ExtractFailure("ValueError", scan.read)
          ELSE
            LET header_data == SubSeq(lsbs, 1, scan.read - HEADER_TERMINATOR_LEN)
                qr_width == _binary_to_int(SubSeq(header_data, 1, 16))
                qr_height == _binary_to_int(SubSeq(header_data, 17, 32))
                num_qr_bits_expected == qr_width * qr_height
                start_pixel_index == scan.read
                coords == PixelIterator(width, height,
                                        start_pixel_index \div width,
                                        start_pixel_index % width,
                                        num_qr_bits_expected)
                qr_bits == [k \in 1..Len(coords) |->
                              _extract_lsb(getpixel(stego_file, coords[k][1],
                                                    coords[k][2])[3])]
            IN  IF Len(qr_bits) < num_qr_bits_expected
                THEN ExtractFailure("ValueError", scan.read)
                ELSE [qr |-> ReconstructQr(qr_width, qr_height, qr_bits),
                      qr_width |-> qr_width,
                      qr_height |-> qr_height, outcome |-> "saved",
                      read |-> scan.read, validation |-> NoValidation]

(***************************************************************************)
(* Security header codec and authorization validator.                      *)
(***************************************************************************)
add_security_header_timestamp_first(qr_bits, key_hash, timestamp) ==
    LET key_hash_bits == _int_to_binary(Sha256Prefix32(key_hash), 32)
        timestamp_bits == WideToBinary32(timestamp)
        combined_data == BitChars(qr_bits) \o key_hash
                           \o WideDecimalChars(timestamp)
        checksum == _calculate_crc16(combined_data)
        checksum_bits == _int_to_binary(checksum, 16)
    IN  timestamp_bits \o key_hash_bits \o checksum_bits

\* key_hash is the document key string, timestamp the unix time (the
\* source passes str(int(time.time())) and reads it back with
\* int(float(timestamp))).
\* timestamp is the decimal string of an integer below 2^32, held as a wide
\* integer
add_security_header(qr_bits, key_hash, timestamp) ==
    LET key_hash_bits == _int_to_binary(Sha256Prefix32(key_hash), 32)
        timestamp_bits == WideToBinary32(timestamp)
        combined_data == BitChars(qr_bits) \o key_hash
                           \o WideDecimalChars(timestamp)
        checksum == _calculate_crc16(combined_data)
        checksum_bits == _int_to_binary(checksum, 16)
    IN  key_hash_bits \o timestamp_bits \o checksum_bits

InvalidHeader ==
    [timestamp |-> <<0, 0>>, key_hash_bits |-> <<>>, checksum |-> 0,
     key_hash_int |-> <<0, 0>>, header_valid |-> FALSE, header_length |-> 0]

parse_security_header_padded(extracted_bits) ==
    LET padded == extracted_bits
                    \o Zeros(SECURITY_HEADER_LENGTH - Len(extracted_bits))
        bits == IF Len(extracted_bits) < SECURITY_HEADER_LENGTH
                THEN padded ELSE extracted_bits
    IN  [timestamp |-> _binary_to_wide(SubSeq(bits, 33, 64)),
         key_hash_bits |-> SubSeq(bits, 1, 32),
         checksum |-> _binary_to_int(SubSeq(bits, 65, 80)),
         key_hash_int |-> _binary_to_wide(SubSeq(bits, 1, 32)),
         header_valid |-> TRUE,
         header_length |-> SECURITY_HEADER_LENGTH]

\* The log line of the source formats time.localtime(timestamp), which takes
\* every timestamp below 2^32 where time_t has 64 bits.
parse_security_header(extracted_bits) ==
    IF Len(extracted_bits) < SECURITY_HEADER_LENGTH THEN InvalidHeader
    ELSE [timestamp |-> _binary_to_wide(SubSeq(extracted_bits, 33, 64)),
          key_hash_bits |-> SubSeq(extracted_bits, 1, 32),
          checksum |-> _binary_to_int(SubSeq(extracted_bits, 65, 80)),
          key_hash_int |-> _binary_to_wide(SubSeq(extracted_bits, 1, 32)),
          header_valid |-> TRUE,
          header_length |-> SECURITY_HEADER_LENGTH]

\* current_time is int(time.time()) at the call
validate_embedded_security_reweighted(extracted_header, document_key, current_time) ==
    IF ~extracted_header.header_valid THEN NoValidation
    ELSE
      LET expected_key_hash == ToWide(Sha256Prefix32(document_key))
          key_valid == extracted_header.key_hash_int = expected_key_hash
          timestamp_valid ==
              WideTimeDiffWithin(current_time, extracted_header.timestamp,
                                 TEN_YEARS)
          checksum_valid == extracted_header.checksum # 0
      IN  [key_valid |-> key_valid,
           timestamp_valid |-> timestamp_valid,
           checksum_valid |-> checksum_valid,
           overall_valid |-> key_valid /\ timestamp_valid /\ checksum_valid,
           security_score |-> (IF key_valid THEN 25 ELSE 0)
                                + (IF timestamp_valid THEN 50 ELSE 0)
                                + (IF checksum_valid THEN 25 ELSE 0)]

validate_embedded_security_two_checks(extracted_header, document_key, current_time) ==
    IF ~extracted_header.header_valid THEN NoValidation
    ELSE
      LET expected_key_hash == ToWide(Sha256Prefix32(document_key))
          key_valid == extracted_header.key_hash_int = expected_key_hash
          timestamp_valid ==
              WideTimeDiffWithin(current_time, extracted_header.timestamp,
                                 TEN_YEARS)
          checksum_valid == extracted_header.checksum # 0
      IN  [key_valid |-> key_valid,
           timestamp_valid |-> timestamp_valid,
           checksum_valid |-> checksum_valid,
           overall_valid |-> key_valid /\ timestamp_valid,
           security_score |-> (IF key_valid THEN 50 ELSE 0)
                                + (IF timestamp_valid THEN 25 ELSE 0)
                                + (IF checksum_valid THEN 25 ELSE 0)]

validate_embedded_security(extracted_header, document_key, current_time) ==
    IF ~extracted_header.header_valid THEN NoValidation
    ELSE
      LET expected_key_hash == ToWide(Sha256Prefix32(document_key))
          key_valid == extracted_header.key_hash_int = expected_key_hash
          timestamp_valid ==
              WideTimeDiffWithin(current_time, extracted_header.timestamp,
                                 TEN_YEARS)
          \* "just check if checksum is non-zero"
          checksum_valid == extracted_header.checksum # 0
      IN  [key_valid |-> key_valid,
           timestamp_valid |-> timestamp_valid,
           checksum_valid |-> checksum_valid,
           overall_valid |-> key_valid /\ timestamp_valid /\ checksum_valid,
           security_score |-> (IF key_valid THEN 50 ELSE 0)
                                + (IF timestamp_valid THEN 25 ELSE 0)
                                + (IF checksum_valid THEN 25 ELSE 0)]

(***************************************************************************)
(* embed_secure_qr_to_image.  qr_img is the matrix the QR encoder made of  *)
(* encrypted_qr_data; current_timestamp is int(time.time()).               *)
(***************************************************************************)
embed_secure_qr_to_image_no_exact_fit(cover_img, qr_img, key_hash, current_timestamp) ==
    LET max_capacity == cover_img.w * cover_img.h
        qr_bits == QrBitsOf(qr_img)
        security_header == add_security_header(qr_bits, key_hash,
                                               ToWide(current_timestamp))
        standard_header == _int_to_binary(qr_img.w, 16) \o _int_to_binary(qr_img.h, 16)
        enhanced_header == security_header \o standard_header \o HEADER_TERMINATOR_BIN
        total_bits_needed == Len(enhanced_header) + Len(qr_bits)
    IN  IF total_bits_needed >= max_capacity
        THEN [bits |-> <<>>, qr |-> qr_img, outcome |-> "failure",
              image |-> cover_img]
        ELSE [bits |-> enhanced_header \o qr_bits,
              qr |-> qr_img,
              outcome |-> "saved",
              image |-> EmbedLoop(cover_img, enhanced_header \o qr_bits)]

embed_secure_qr_to_image(cover_img, qr_img, key_hash, current_timestamp) ==
    LET max_capacity == cover_img.w * cover_img.h
        qr_bits == QrBitsOf(qr_img)
        security_header == add_security_header(qr_bits, key_hash,
                                               ToWide(current_timestamp))
        standard_header == _int_to_binary(qr_img.w, 16) \o _int_to_binary(qr_img.h, 16)
        enhanced_header == security_header \o standard_header \o HEADER_TERMINATOR_BIN
        total_bits_needed == Len(enhanced_header) + Len(qr_bits)
    IN  IF total_bits_needed > max_capacity
        THEN [bits |-> <<>>, qr |-> qr_img, outcome |-> "failure",
              image |-> cover_img]
        ELSE [bits |-> enhanced_header \o qr_bits,
              qr |-> qr_img,
              outcome |-> "saved",
              image |-> EmbedLoop(cover_img, enhanced_header \o qr_bits)]

(***************************************************************************)
(* extract_secure_qr_from_image.                                           *)
(***************************************************************************)
\* The i found by
\*   for i in range(len(bits) - 8 + 1):
\*       if bits[i:i+8] == TERMINATOR and len(bits[:i]) >= 32: break
\* or -1 when the loop ends without a match.
FindTerminator(standard_header_bits) ==
    LET n == Len(standard_header_bits) - HEADER_TERMINATOR_LEN + 1
        hits == {i \in 0..(n - 1) :
                    /\ SubSeq(standard_header_bits, i + 1,
                              i + HEADER_TERMINATOR_LEN) = HEADER_TERMINATOR_BIN
                    /\ i >= 32}
    IN  IF hits = {} THEN 0 - 1
        ELSE CHOOSE i \in hits : \A j \in hits : i <= j

extract_secure_qr_from_image(stego_file, document_key, current_time) ==
    IF ~stego_file.exists THEN ExtractFailure("failure", 0)
    ELSE
      LET lsbs == BlueLsbs(stego_file)
          STANDARD_HEADER_LENGTH == 32 + HEADER_TERMINATOR_LEN
          extraction_limit == SECURITY_HEADER_LENGTH + STANDARD_HEADER_LENGTH + 1000
          first_read == Min(Len(lsbs), extraction_limit)
          extracted_bits == SubSeq(lsbs, 1, first_read)
          security_header_data ==
              parse_security_header(
                  SubSeq(extracted_bits, 1, Min(first_read, SECURITY_HEADER_LENGTH)))
      IN  IF ~security_header_data.header_valid
          THEN ExtractFailure("failure", first_read)
          ELSE
            LET security_validation ==
                    validate_embedded_security(security_header_data,
                                               document_key, current_time)
                standard_header_bits ==
                    SubSeq(extracted_bits, SECURITY_HEADER_LENGTH + 1, first_read)
                i == FindTerminator(standard_header_bits)
            IN  IF i < 0 THEN ExtractFailure("failure", first_read)
                ELSE
                  LET header_data == SubSeq(standard_header_bits, 1, i)
                      qr_width == _binary_to_int(SubSeq(header_data, 1, 16))
                      qr_height == _binary_to_int(SubSeq(header_data, 17, 32))
                      qr_bits_needed == qr_width * qr_height
                      total_header_length ==
                          SECURITY_HEADER_LENGTH + 32 + HEADER_TERMINATOR_LEN
                      total_bits_needed == total_header_length + qr_bits_needed
                      \* the while loop reads on until enough bits or the
                      \* last pixel
                      have == IF first_read >= total_bits_needed THEN first_read
                              ELSE Min(Len(lsbs), total_bits_needed)
                      qr_bits == SubSeq(lsbs, total_header_length + 1,
                                        total_header_length + qr_bits_needed)
                  IN  IF have < total_bits_needed
                      THEN ExtractFailure("failure", have)
                      ELSE [qr |-> ReconstructQr(qr_width, qr_height, qr_bits),
                            qr_width |-> qr_width,
                            qr_height |-> qr_height, outcome |-> "saved",
                            read |-> have,
                            validation |-> security_validation]

(***************************************************************************)
(* The wrappers with an optional security key.  A result is the record     *)
(* [raised, success, method, file, qr, validation]: raised when the call   *)
(* ends with an exception; success and method are the keys of the dict     *)
(* returned (method is "" in the dict of the secure functions, which has   *)
(* no such key, and the dict with a method has security_mode False); file  *)
(* is what the call left at the stego path (NoFile when it wrote nothing), *)
(* qr the matrix written at the output path of an extraction.              *)
(***************************************************************************)
\* security_key = None, or '' (both are false in `if security_key:`)
NoSecurityKey == <<>>

\* The matrix the QR encoder makes of f"ENCRYPTED_QR_FROM_{basename}": it
\* depends on the name of the matrix file only, never on its cells.
EncodedNameMatrix ==
    [w |-> 2, h |-> 2, cells |-> <<0, 255, 255, 0>>]

embed_qr_to_image_secure(cover_img, qr_img, security_key, resize_qr_if_needed, current_timestamp) ==
    IF security_key # NoSecurityKey
    THEN \* embed_secure_qr_to_image catches every exception itself, so the
         \* except branch of the wrapper is never entered
         LET r == embed_secure_qr_to_image(cover_img, EncodedNameMatrix,
                                           security_key, current_timestamp)
         IN  [qr |-> r.qr, raised |-> FALSE,
              validation |-> NoValidation,
              success |-> r.outcome = "saved",
              method |-> "", file |-> IF r.outcome = "saved" THEN r.image ELSE NoFile]
    ELSE LET r == embed_qr_to_image(cover_img, qr_img, resize_qr_if_needed)
         IN  IF r.outcome = "ValueError"
             THEN [qr |-> r.qr, raised |-> TRUE, validation |-> NoValidation,
                   success |-> FALSE, method |-> "", file |-> NoFile]
             ELSE [qr |-> r.qr, raised |-> FALSE,
                   validation |-> NoValidation,
                   success |-> TRUE,
                   method |-> "standard_embedding", file |-> IF r.outcome = "saved" THEN r.image ELSE NoFile]

extract_qr_from_image_secure(stego_file, security_key, current_time) ==
    IF security_key # NoSecurityKey
    THEN \* extract_secure_qr_from_image catches every exception itself
         LET r == extract_secure_qr_from_image(stego_file, security_key,
                                               current_time)
         IN  [qr |-> r.qr, raised |-> FALSE,
              validation |-> r.validation, success |-> r.outcome = "saved", method |-> "",
              file |-> stego_file]
    ELSE LET r == extract_qr_from_image(stego_file)
         IN  IF r.outcome # "saved"
             THEN [qr |-> NoMatrix, raised |-> TRUE, validation |-> NoValidation,
                   success |-> FALSE, method |-> "",
                   file |-> stego_file]
             ELSE [qr |-> r.qr, raised |-> FALSE,
                   validation |-> NoValidation, success |-> TRUE,
                   method |-> "standard_extraction", file |-> stego_file]

(***************************************************************************)
(* security_utils.py.  Digests, derived keys and Fernet tokens are         *)
(* symbolic terms: SHA-256, PBKDF2 and HMAC are taken as injective, and a  *)
(* Fernet token opens only under the key that made it and only when no     *)
(* byte of it was changed.                                                 *)
(*                                                                         *)
(* A text string is a sequence of characters out of "a" (a letter), " "    *)
(* (whitespace) and "S" (a lone surrogate, which UTF-8 cannot encode).     *)
(* A base64 text is the record [bytes, form]: the bytes it decodes to and  *)
(* whether it is the "canonical" text base64.urlsafe_b64encode produces    *)
(* or a "variant", another text that urlsafe_b64decode maps to the same    *)
(* bytes (it discards characters outside the alphabet and ignores the      *)
(* unused bits of the last character).  A "short" key is a text of fewer   *)
(* than 32 characters.                                                     *)
(***************************************************************************)
\* not qr_text or not qr_text.strip()
IsBlank(text) == \A i \in 1..Len(text) : text[i] = " "

\* qr_text.encode('utf-8')
Utf8Encode(text) ==
    IF \E i \in 1..Len(text) : text[i] = "S"
    THEN [ok |-> FALSE, bytes |-> <<>>]
    ELSE [ok |-> TRUE,
          bytes |-> [i \in 1..Len(text) |-> IF text[i] = "a" THEN 97 ELSE 32]]

\* decrypted_bytes.decode('utf-8')
Utf8Decode(bytes) ==
    [i \in 1..Len(bytes) |-> IF bytes[i] = 97 THEN "a" ELSE " "]

\* base64.urlsafe_b64encode(b).decode('utf-8')
urlsafe_b64encode(bytes) == [bytes |-> bytes, form |-> "canonical"]

\* base64.urlsafe_b64decode(text.encode())
urlsafe_b64decode(text) == text.bytes

\* len(document_key)
KeyTextLen(document_key) == IF document_key.form = "short" THEN 4 ELSE 44

NoToken == [fkey |-> <<>>, msg |-> <<>>, intact |-> FALSE]
NoText == [bytes |-> NoToken, form |-> "none"]
NoKey == [bytes |-> <<>>, form |-> "none"]
ShortKey == [bytes |-> <<"raw">>, form |-> "short"]

\* Fernet(key).encrypt(msg)
FernetEncrypt(key_bytes, msg) == [fkey |-> key_bytes, msg |-> msg, intact |-> TRUE]

\* Fernet(key).decrypt(token): the message, or InvalidToken
FernetDecrypt(key_bytes, token) ==
    IF token.intact /\ token.fkey = key_bytes
    THEN [ok |-> TRUE, msg |-> token.msg]
    ELSE [ok |-> FALSE, msg |-> <<>>]

\* hashlib.sha256 of the document's content, as hex digest
generate_document_hash(content) == <<"sha256", content>>

generate_document_key_half_hour(content, additional_data, now) ==
    LET doc_hash == generate_document_hash(content)
        timestamp == now \div 1800
        key_material == <<doc_hash, timestamp, additional_data>>
        salt == <<"sha256[:16]", doc_hash>>
        key == <<"pbkdf2", salt, key_material>>
    IN  urlsafe_b64encode(key)

\* now is time.time() at the call.  key_material is the f-string
\* "{doc_hash}:{timestamp}:{additional_data}": doc_hash is 64 hex digits and
\* timestamp is decimal digits, so the string determines the three parts and
\* is kept as the triple.
generate_document_key(content, additional_data, now) ==
    LET doc_hash == generate_document_hash(content)
        timestamp == now \div 3600
        key_material == <<doc_hash, timestamp, additional_data>>
        salt == <<"sha256[:16]", doc_hash>>
        key == <<"pbkdf2", salt, key_material>>
    IN  urlsafe_b64encode(key)

\* A QR data string: prefix says whether it starts with "enc:", text is
\* the base64 text after the prefix, plain the string itself otherwise.
PlainData(text) == [text |-> NoText, prefix |-> FALSE, plain |-> text]
EncData(b64) == [text |-> b64, prefix |-> TRUE, plain |-> <<>>]

\* not qr_data
IsEmptyData(d) == ~d.prefix /\ d.text.form = "none" /\ d.plain = <<>>

SecurityError == [data |-> PlainData(<<>>), outcome |-> "SecurityError", text |-> <<>>]

\* encrypt_qr_data(qr_text, document_key): [outcome, data]
encrypt_qr_data_dropping_whitespace(qr_text, document_key) ==
    IF qr_text = <<>> \/ IsBlank(qr_text) THEN SecurityError
    ELSE IF document_key.form = "none" \/ KeyTextLen(document_key) < 32
    THEN SecurityError
    ELSE
      LET key_bytes == urlsafe_b64decode(document_key)
          encoded == Utf8Encode(SelectSeq(qr_text, LAMBDA c: c # " "))
      IN  IF ~encoded.ok THEN SecurityError
          ELSE [data |-> EncData(urlsafe_b64encode(
                                     FernetEncrypt(key_bytes, encoded.bytes))),
                outcome |-> "ok",
                text |-> <<>>]

encrypt_qr_data(qr_text, document_key) ==
    IF qr_text = <<>> \/ IsBlank(qr_text) THEN SecurityError
    ELSE IF document_key.form = "none" \/ KeyTextLen(document_key) < 32
    THEN SecurityError
    ELSE
      LET key_bytes == urlsafe_b64decode(document_key)
          encoded == Utf8Encode(qr_text)
      IN  IF ~encoded.ok THEN SecurityError
          ELSE [data |-> EncData(urlsafe_b64encode(
                                     FernetEncrypt(key_bytes, encoded.bytes))),
                outcome |-> "ok",
                text |-> <<>>]

\* decrypt_qr_data(encrypted_data, document_key): [outcome, text]
decrypt_qr_data_unauthenticated(encrypted_data, document_key) ==
    IF ~encrypted_data.prefix THEN SecurityError
    ELSE IF document_key.form = "none" \/ KeyTextLen(document_key) < 32
    THEN SecurityError
    ELSE
      LET encrypted_bytes == urlsafe_b64decode(encrypted_data.text)
      IN  [data |-> PlainData(<<>>), outcome |-> "ok",
           text |-> Utf8Decode(encrypted_bytes.msg)]

decrypt_qr_data(encrypted_data, document_key) ==
    IF ~encrypted_data.prefix THEN SecurityError
    ELSE IF document_key.form = "none" \/ KeyTextLen(document_key) < 32
    THEN SecurityError
    ELSE
      LET encrypted_bytes == urlsafe_b64decode(encrypted_data.text)
          key_bytes == urlsafe_b64decode(document_key)
          decrypted == FernetDecrypt(key_bytes, encrypted_bytes)
      IN  IF ~decrypted.ok THEN SecurityError
          ELSE [data |-> PlainData(<<>>), outcome |-> "ok",
                text |-> Utf8Decode(decrypted.msg)]

\* hmac.new(key_bytes, document_hash, sha256), base64-encoded
create_key_signature(document_key, document_hash) ==
    urlsafe_b64encode(<<"hmac", urlsafe_b64decode(document_key), document_hash>>)

\* hmac.compare_digest(signature, expected_signature)
verify_key_signature(document_key, signature, document_hash) ==
    signature = create_key_signature(document_key, document_hash)

\* is_qr_authorized_for_document(qr_data, document_key, document_path),
\* content being what the file at document_path holds
is_qr_authorized_for_document(qr_data, document_key, content) ==
    IF IsEmptyData(qr_data) \/ document_key.form = "none"
    THEN FALSE
    ELSE
      LET current_doc_hash == generate_document_hash(content)
          decryption_success ==
              IF qr_data.prefix
              THEN decrypt_qr_data(qr_data, document_key).outcome = "ok"
              ELSE TRUE
          test_signature == create_key_signature(document_key, current_doc_hash)
          signature_valid ==
              verify_key_signature(document_key, test_signature, current_doc_hash)
      IN  decryption_success /\ signature_valid

(***************************************************************************)
(* security_storage.py.  The storage file holds, per document hash, an     *)
(* entry with document_key, created_at, last_accessed and access_count,    *)
(* and metadata.total_documents.  A date string is [form, day]: "naive"    *)
(* (what datetime.now().isoformat() writes; day counts whole days),        *)
(* "aware" (a date with 'Z' or an offset, which fromisoformat makes an     *)
(* offset-aware datetime), "unparsable" (fromisoformat raises ValueError)  *)
(* or "missing" (the field is not there).  A file is [kind, documents,     *)
(* total_documents] with kind "absent", "store", "not_json" (json.load     *)
(* raises) or "not_a_store" (JSON that is no dict with a "documents" key). *)
(***************************************************************************)
Hashes == {"h1", "h2"}
StoreKeys == {"k1", "k2"}

NoDate == [form |-> "missing", day |-> 0]
NaiveDate(day) == [form |-> "naive", day |-> day]

NoEntry ==
    [document_key |-> "", present |-> FALSE, created_at |-> NoDate,
     last_accessed |-> NoDate, access_count |-> 0]

NoDocuments == [h \in Hashes |-> NoEntry]

FileOf(kind) == [kind |-> kind, documents |-> NoDocuments, total_documents |-> 0]

\* the structure _load_storage_data returns when there is no file
FreshStore == FileOf("store")
AbsentFile == FileOf("absent")

DocumentHashes(data) == {h \in Hashes : data.documents[h].present}

\* _load_storage_data() of the file f.  raised: the call ends with an
\* exception instead of returning (a file that parses but is no store makes
\* the function call itself again on the same file, until RecursionError);
\* file: the storage file afterwards; renamed: the file was moved to a
\* .corrupted backup.
_load_storage_data(f) ==
    CASE f.kind = "absent" ->
           [data |-> FreshStore, raised |-> FALSE, file |-> f, renamed |-> FALSE]
      [] f.kind = "store" ->
           [data |-> f, raised |-> FALSE, file |-> f, renamed |-> FALSE]
      [] f.kind = "not_a_store" ->
           [data |-> FreshStore, raised |-> TRUE, file |-> f, renamed |-> FALSE]
      [] f.kind = "not_json" ->
           [data |-> FreshStore, raised |-> FALSE, file |-> AbsentFile,
            renamed |-> TRUE]

\* _save_storage_data, up to the temporary file: what json.dump writes
TempFileOf(data) ==
    [kind |-> "store", documents |-> data.documents,
     total_documents |-> Cardinality(DocumentHashes(data))]

StoredEntryKeepingKey(data, document_hash, document_key, now) ==
    LET existing_entry == data.documents[document_hash]
    IN  IF existing_entry.present
        THEN [existing_entry EXCEPT !.last_accessed = NaiveDate(now),
                                    !.access_count = @ + 1]
        ELSE [document_key |-> document_key, present |-> TRUE,
              created_at |-> NaiveDate(now), last_accessed |-> NaiveDate(now),
              access_count |-> 1]

\* store_document_key: the entry put under document_hash
StoredEntry(data, document_hash, document_key, now) ==
    LET existing_entry == data.documents[document_hash]
    IN  IF existing_entry.present
        THEN [document_key |-> document_key, present |-> TRUE,
              created_at |-> IF existing_entry.created_at.form = "missing"
                             THEN NaiveDate(now)
                             ELSE existing_entry.created_at,
              last_accessed |-> NaiveDate(now),
              access_count |-> existing_entry.access_count + 1]
        ELSE [document_key |-> document_key, present |-> TRUE,
              created_at |-> NaiveDate(now), last_accessed |-> NaiveDate(now),
              access_count |-> 1]

\* retrieve_document_key: the entry after the access was noted
AccessedEntryUncounted(document_entry, now) ==
    [document_entry EXCEPT !.last_accessed = NaiveDate(now)]

\* retrieve_document_key: the entry after the access is recorded
AccessedEntry(document_entry, now) ==
    [document_entry EXCEPT !.last_accessed = NaiveDate(now),
                           !.access_count = @ + 1]

\* cleanup_expired_keys: doc_data.get("last_accessed", doc_data.get("created_at"))
LastAccessedStr(doc_data) ==
    IF doc_data.last_accessed.form # "missing" THEN doc_data.last_accessed
    ELSE doc_data.created_at

\* The comparison of an offset-aware last_accessed with the naive
\* expiry_date raises TypeError, which the except ValueError lets through.
CleanupRaises(data) ==
    \E h \in DocumentHashes(data) :
        LastAccessedStr(data.documents[h]).form = "aware"

ExpiredDocuments(data, days, now) ==
    {h \in DocumentHashes(data) :
        LET last_accessed == LastAccessedStr(data.documents[h])
        IN  \/ last_accessed.form = "unparsable"
            \/ (last_accessed.form = "naive" /\ last_accessed.day < now - days)}

RemoveDocuments(data, hashes) ==
    [data EXCEPT !.documents =
        [h \in Hashes |-> IF h \in hashes THEN NoEntry ELSE @[h]]]

\* import_security_backup: the documents of the backup take precedence
MergedDocuments(current_data, imported_documents) ==
    [current_data EXCEPT !.documents =
        [h \in Hashes |-> IF imported_documents[h].present
                          THEN imported_documents[h] ELSE @[h]]]

(***************************************************************************)
(* The inputs of the model.                                                *)
(***************************************************************************)
\* Largest width and height of a payload matrix.
MaxQrDim == 2

\* Blue LSB of pixel i (0-based, raster order) of a cover:
\*   "alt"    0101...: no run of eight zeros anywhere;
\*   "sparse" a 1 at every 16th position: long runs of zeros;
\*   "dense"  a 0 at every 32nd position only: no run of eight zeros.
CoverLsb(pattern, i) ==
    CASE pattern = "alt" -> i % 2
      [] pattern = "sparse" -> IF i % 16 = 15 THEN 1 ELSE 0
      [] pattern = "dense" -> IF i % 32 = 0 THEN 0 ELSE 1

CoverImage(width, height, pattern) ==
    [w |-> width, h |-> height,
     px |-> [k \in 1..(width * height) |->
               <<(3 * k + 1) % 256, (5 * k + 2) % 256,
                 2 * ((7 * k) % 128) + CoverLsb(pattern, k - 1)>>],
     exists |-> TRUE]

CoverShapes ==
    { <<5, 7, "alt">>, <<41, 1, "alt">>, <<9, 5, "alt">>, <<9, 5, "sparse">>,
      <<11, 11, "alt">>, <<62, 2, "alt">>, <<62, 2, "sparse">>,
      <<24, 23, "dense">> }

Covers == {CoverImage(c[1], c[2], c[3]) : c \in CoverShapes}

\* Cell k (1-based, raster order) of a payload pattern.
QrCell(pattern, k) ==
    CASE pattern = "white" -> 255
      [] pattern = "black" -> 0
      [] pattern = "mixed" -> IF k % 3 = 1 THEN 0 ELSE 255

QrImage(width, height, pattern) ==
    [w |-> width, h |-> height,
     cells |-> [k \in 1..(width * height) |-> QrCell(pattern, k)]]

Matrices ==
    {QrImage(w, h, p) : w \in 1..MaxQrDim, h \in 1..MaxQrDim,
                        p \in {"white", "black", "mixed"}}

\* Clock readings: when an embedding runs, and how much later a validation.
EmbedTimes == {1700000000, 1700046679}
ValidationDelays == {3600, 11 * 365 * 24 * 3600}

\* Stream positions (0-based) whose LSB an outside party may flip.
TamperIndices == {29, 32, 35, 39, 40, 41, 43, 109, 112, 115, 119, 120, 121, 123}

(***************************************************************************)
(* State.                                                                  *)
(***************************************************************************)
VARIABLES
    cover,      \* the cover image given to the embedder
    qr,         \* the payload matrix given to the embedder
    stego,      \* the file at the stego path (NoFile while absent)
    emb,        \* what the embedding call did
    flips,      \* stream positions flipped in the stego file since
    ext,        \* what the extraction call returned
    phase,      \* "ready", "embedded", "extracted"
    clock,      \* time.time() of the security utilities, in seconds
    issued,     \* per document path, the key generate_document_key returned
    enc,        \* the last encrypt_qr_data call
    wire,       \* the QR data string as its holder presents it
    dec,        \* the last decrypt_qr_data call
    auth,       \* the last is_qr_authorized_for_document call
    secPhase,   \* "setup", "encrypted", "done"
    fn,         \* the calls made of the planning, key and header functions,
                \* each with its arguments and its result, oldest first
    sfile,      \* the storage file security_keys.json
    corrupted,  \* a .corrupted backup of the storage file was made
    sclock,     \* datetime.now() of the key store, in days
    _storage_lock,  \* per process, the thread holding the RLock, or "free"
    worker,     \* per thread, the key-store operation it is in
    done,       \* the key-store operation that returned last
    ledger,     \* per hash, what the calls that returned did to it
    begun       \* number of key-store operations begun

lsbVars == <<cover, qr, stego, emb, flips, ext, phase>>
secVars == <<clock, issued, enc, wire, dec, auth, secPhase>>
fnVars == <<fn>>
storeVars == <<sfile, corrupted, sclock, _storage_lock, worker, done, ledger, begun>>
vars == <<lsbVars, secVars, fnVars, storeVars>>

NoEmbed ==
    [bits |-> <<>>, ts |-> 0, key |-> <<>>, qr |-> NoMatrix,
     error |-> NoError, outcome |-> "none", op |-> "none", nbits |-> 0,
     strict |-> FALSE]

NoExtract ==
    [key |-> <<>>, now |-> 0, op |-> "none",
     result |-> ExtractFailure("none", 0)]

\* The documents on disk and what they hold (a content is one number; two
\* contents differ in at least one byte).
Paths == {"docA", "docB"}
DocContent(path) == IF path = "docA" THEN 1 ELSE 2

\* Clock of the security utilities: the start, and how many half hours it
\* may advance.
ClockStart == 1700000000
MaxTicks == 2

\* The plaintexts handed to encrypt_qr_data.
PlainTexts ==
    { <<>>, <<" ">>, <<"a">>, <<" ", "a">>, <<"a", " ">>, <<"S">>, <<"a", "S">> }

\* The additional_data handed to generate_document_key.
AdditionalData == {"", "user"}

\* A text other than the one urlsafe_b64encode gives that decodes to the
\* same bytes.
Variant(text) == [text EXCEPT !.form = "variant"]

NoCall == [data |-> PlainData(<<>>), key |-> NoKey, outcome |-> "none",
           text |-> <<>>, plain |-> <<>>, result |-> FALSE, path |-> "", called |-> FALSE]

(***************************************************************************)
(* The key store as a fourth state machine.  Threads t1 and t2 belong to   *)
(* one process P and share its _storage_lock; thread q is another process  *)
(* Q on the same storage file.  An operation that saves takes three steps: *)
(* it takes the lock, loads, changes the data in memory and writes the     *)
(* temporary file; it removes the storage file; it renames the temporary   *)
(* file to the storage file, releases the lock and returns.  An operation  *)
(* that does not save is one step.                                         *)
(***************************************************************************)
Threads == {"t1", "t2"}
AllThreads == Threads \cup {"q"}
ProcessOf(t) == IF t = "q" THEN "Q" ELSE "P"
Processes == {ProcessOf(t) : t \in AllThreads}

\* Operations begun in one behaviour, and the last day of the clock.
StoreMaxOps == 3
StoreMaxDay == 3

\* cleanup_expired_keys(days)
CleanupDays == {1, 2}

\* The documents of the backups given to import_security_backup: an entry
\* for h2 whose last_accessed is no date, one last accessed at a UTC time
\* ("...Z"), and one without last_accessed, created on day 0.
BackupEntry(created_at, last_accessed) ==
    [document_key |-> "k2", present |-> TRUE, created_at |-> created_at,
     last_accessed |-> last_accessed, access_count |-> 1]

Backups ==
    {[NoDocuments EXCEPT !["h2"] = e] :
        e \in {BackupEntry(NaiveDate(0), [form |-> "unparsable", day |-> 0]),
               BackupEntry(NaiveDate(0), [form |-> "aware", day |-> 0]),
               BackupEntry(NaiveDate(0), NoDate)}}

\* What a call returned: outcome is "True", "False", "None", "entry" (the
\* document entry), "list", "stats" (the cleanup statistics) or
\* "SecurityStorageError"; removed names the hashes a cleanup removed (the
\* statistics give their number only).
NoStats ==
    [total_documents_before |-> 0, expired_documents_found |-> 0,
     documents_removed |-> 0, documents_remaining |-> 0]

Result(outcome) ==
    [outcome |-> outcome, entry |-> NoEntry, listed |-> {}, stats |-> NoStats,
     removed |-> {}]

NoCallYet == [h |-> "", key |-> "", documents |-> NoDocuments, days |-> 0,
              op |-> "none"]

IdleWorker ==
    [data |-> FreshStore, now |-> 0, result |-> Result("none"),
     pc |-> "idle", call |-> NoCallYet, file_before |-> AbsentFile,
     loaded |-> FreshStore, during_save |-> FALSE]

NoDone ==
    [now |-> 0, result |-> Result("none"), t |-> "",
     call |-> NoCallYet, file_before |-> AbsentFile, loaded |-> FreshStore,
     during_save |-> FALSE]

\* The ledger of a hash: "absent" (never stored, or removed since by the
\* operation removed_by),
\* "counted" (stored on an absent hash; calls counts the store and retrieve
\* calls that returned since, created is the day of the first) or "foreign"
\* (brought in by an import); key is the document_key of the last store
\* since ("" when there was none).
AbsentLedger ==
    [key |-> "", state |-> "absent", calls |-> 0, created |-> 0,
     removed_by |-> ""]
RemovedLedger(op) == [AbsentLedger EXCEPT !.removed_by = op]

LedgerAfter(call, result, now) ==
    [h \in Hashes |->
        CASE call.op = "store_document_key" /\ result.outcome = "True"
                  /\ h = call.h ->
               IF ledger[h].state = "absent"
               THEN [key |-> call.key, state |-> "counted", calls |-> 1,
                     created |-> now, removed_by |-> ""]
               ELSE [ledger[h] EXCEPT !.key = call.key, !.calls = @ + 1]
          [] call.op = "retrieve_document_key" /\ result.outcome = "entry"
                  /\ h = call.h ->
               [ledger[h] EXCEPT !.calls = @ + 1]
          [] call.op = "delete_document_key" /\ result.outcome = "True"
                  /\ h = call.h -> RemovedLedger(call.op)
          [] call.op = "cleanup_expired_keys" /\ h \in result.removed ->
               RemovedLedger(call.op)
          [] call.op = "import_security_backup" /\ result.outcome = "True"
                  /\ call.documents[h].present ->
               [key |-> "", state |-> "foreign", calls |-> 0, created |-> 0,
                removed_by |-> ""]
          [] OTHER -> ledger[h]]

StoreIdle ==
    /\ sfile = AbsentFile
    /\ corrupted = FALSE
    /\ sclock = 0
    /\ _storage_lock = [p \in Processes |-> "free"]
    /\ worker = [t \in AllThreads |-> IdleWorker]
    /\ done = NoDone
    /\ ledger = [h \in Hashes |-> AbsentLedger]
    /\ begun = 0

SecIdle ==
    /\ clock = ClockStart
    /\ issued = [p \in Paths |-> NoKey]
    /\ enc = NoCall
    /\ wire = PlainData(<<>>)
    /\ dec = NoCall
    /\ auth = NoCall
    /\ secPhase = "setup"

FnIdle == fn = <<>>

LsbIdle ==
    /\ cover = NoFile
    /\ qr = NoMatrix
    /\ stego = NoFile
    /\ emb = NoEmbed
    /\ flips = {}
    /\ ext = NoExtract
    /\ phase = "idle"

Init ==
    /\ cover \in Covers
    /\ qr \in Matrices
    \* the large cover is paired with the one-cell matrices only
    /\ (cover.w * cover.h > 200 => qr.w * qr.h = 1)
    /\ stego = NoFile
    /\ emb = NoEmbed
    /\ flips = {}
    /\ ext = NoExtract
    /\ phase = "ready"
    /\ SecIdle
    /\ FnIdle
    /\ StoreIdle

(***************************************************************************)
(* Operations.                                                             *)
(***************************************************************************)
\* embed_qr_to_image(cover, qr, stego_path, resize_qr_if_needed)
EmbedStd(resize_qr_if_needed) ==
    /\ phase = "ready"
    /\ LET r == embed_qr_to_image(cover, qr, resize_qr_if_needed)
       IN  /\ stego' = IF r.outcome = "saved" THEN r.image ELSE stego
           /\ emb' = [bits |-> r.bits, ts |-> 0,
                      key |-> <<>>, qr |-> r.qr, error |-> r.error,
                      outcome |-> r.outcome, op |-> "embed_qr_to_image",
                      nbits |-> Len(r.bits), strict |-> ~resize_qr_if_needed]
    /\ phase' = "embedded"
    /\ UNCHANGED <<cover, qr, flips, ext>>
    /\ UNCHANGED secVars
    /\ UNCHANGED fnVars
    /\ UNCHANGED storeVars

\* embed_secure_qr_to_image(cover, data, key, stego_path) at clock reading t
EmbedSecure(key, t) ==
    /\ phase = "ready"
    /\ LET r == embed_secure_qr_to_image(cover, qr, key, t)
       IN  /\ stego' = IF r.outcome = "saved" THEN r.image ELSE stego
           /\ emb' = [bits |-> r.bits, ts |-> t,
                      key |-> key, qr |-> r.qr, error |-> NoError,
                      outcome |-> r.outcome, op |-> "embed_secure_qr_to_image",
                      nbits |-> Len(r.bits), strict |-> FALSE]
    /\ phase' = "embedded"
    /\ UNCHANGED <<cover, qr, flips, ext>>
    /\ UNCHANGED secVars
    /\ UNCHANGED fnVars
    /\ UNCHANGED storeVars

\* The caller puts an image that never went through the embedder at the
\* stego path.
SupplyPlainImage ==
    /\ phase = "ready"
    /\ stego' = cover
    /\ emb' = NoEmbed
    /\ phase' = "embedded"
    /\ UNCHANGED <<cover, qr, flips, ext>>
    /\ UNCHANGED secVars
    /\ UNCHANGED fnVars
    /\ UNCHANGED storeVars

\* One blue LSB of the stored stego image is flipped (stream position i).
Tamper(i) ==
    /\ phase = "embedded"
    /\ stego.exists
    /\ flips = {}
    /\ i < Len(stego.px)
    /\ stego' = [stego EXCEPT !.px[i + 1] =
                    <<@[1], @[2], _embed_bit(@[3], 1 - _extract_lsb(@[3]))>>]
    /\ flips' = {i}
    /\ UNCHANGED <<cover, qr, emb, ext, phase>>
    /\ UNCHANGED secVars
    /\ UNCHANGED fnVars
    /\ UNCHANGED storeVars

\* extract_qr_from_image(stego_path, out_path)
ExtractStd ==
    /\ phase = "embedded"
    /\ ext' = [key |-> <<>>, now |-> 0, op |-> "extract_qr_from_image",
               result |-> extract_qr_from_image(stego)]
    /\ phase' = "extracted"
    /\ UNCHANGED <<cover, qr, stego, emb, flips>>
    /\ UNCHANGED secVars
    /\ UNCHANGED fnVars
    /\ UNCHANGED storeVars

\* extract_secure_qr_from_image(stego_path, key, out_path), delay seconds
\* after the embedding
ExtractSecure(key, delay) ==
    /\ phase = "embedded"
    /\ LET now == (IF emb.ts = 0 THEN 1700000000 ELSE emb.ts) + delay
       IN  ext' = [key |-> key, now |-> now,
                   op |-> "extract_secure_qr_from_image",
                   result |-> extract_secure_qr_from_image(stego, key, now)]
    /\ phase' = "extracted"
    /\ UNCHANGED <<cover, qr, stego, emb, flips>>
    /\ UNCHANGED secVars
    /\ UNCHANGED fnVars
    /\ UNCHANGED storeVars

Next ==
    \/ \E resize \in BOOLEAN : EmbedStd(resize)
    \/ \E key \in {KEY_A, KEY_C}, t \in EmbedTimes : EmbedSecure(key, t)
    \/ SupplyPlainImage
    \/ \E i \in TamperIndices : Tamper(i)
    \/ ExtractStd
    \/ \E key \in Keys, delay \in ValidationDelays : ExtractSecure(key, delay)

Spec == Init /\ [][Next]_vars

(***************************************************************************)
(* The security utilities as a second state machine: keys are generated    *)
(* for the documents while time passes, one text is encrypted, what is     *)
(* carried in the QR code may be altered, and the result is decrypted and  *)
(* checked for authorization.                                              *)
(***************************************************************************)
SecInit ==
    /\ LsbIdle
    /\ SecIdle
    /\ FnIdle
    /\ StoreIdle

IssuedKeys == {issued[p] : p \in Paths} \ {NoKey}

\* key = generate_document_key(document_path, additional_data)
GenerateKey(document_path, additional_data) ==
    /\ secPhase = "setup"
    /\ issued' = [issued EXCEPT ![document_path] =
                      generate_document_key(DocContent(document_path),
                                            additional_data, clock)]
    /\ UNCHANGED <<clock, enc, wire, dec, auth, secPhase>>
    /\ UNCHANGED lsbVars
    /\ UNCHANGED fnVars
    /\ UNCHANGED storeVars

\* half an hour passes
Tick ==
    /\ secPhase = "setup"
    /\ clock < ClockStart + MaxTicks * 1800
    /\ clock' = clock + 1800
    /\ UNCHANGED <<issued, enc, wire, dec, auth, secPhase>>
    /\ UNCHANGED lsbVars
    /\ UNCHANGED fnVars
    /\ UNCHANGED storeVars

\* encrypted = encrypt_qr_data(qr_text, document_key); when the call
\* fails the QR code carries the text as it is
Encrypt(qr_text, document_key) ==
    /\ secPhase = "setup"
    /\ LET r == encrypt_qr_data(qr_text, document_key)
       IN  /\ enc' = [NoCall EXCEPT !.called = TRUE, !.outcome = r.outcome,
                                    !.data = r.data, !.plain = qr_text,
                                    !.key = document_key]
           /\ wire' = IF r.outcome = "ok" THEN r.data ELSE PlainData(qr_text)
    /\ secPhase' = "encrypted"
    /\ UNCHANGED <<clock, issued, dec, auth>>
    /\ UNCHANGED lsbVars
    /\ UNCHANGED fnVars
    /\ UNCHANGED storeVars

\* the carried string is changed on the way: its "enc:" prefix is lost, a
\* byte of the token is changed, or characters outside the base64 alphabet
\* are put in
AlterWire(kind) ==
    /\ secPhase = "encrypted"
    /\ wire = enc.data
    /\ wire.prefix
    /\ wire' = CASE kind = "strip_prefix" -> [wire EXCEPT !.prefix = FALSE]
                 [] kind = "flip_byte" ->
                        [wire EXCEPT !.text.bytes.intact = FALSE]
                 [] kind = "insert_junk" -> [wire EXCEPT !.text = Variant(@)]
    /\ UNCHANGED <<clock, issued, enc, dec, auth, secPhase>>
    /\ UNCHANGED lsbVars
    /\ UNCHANGED fnVars
    /\ UNCHANGED storeVars

\* decrypt_qr_data(wire, document_key)
Decrypt(document_key) ==
    /\ secPhase = "encrypted"
    /\ LET r == decrypt_qr_data(wire, document_key)
       IN  dec' = [NoCall EXCEPT !.called = TRUE, !.outcome = r.outcome,
                                 !.text = r.text, !.data = wire,
                                 !.key = document_key]
    /\ secPhase' = "decrypted"
    /\ UNCHANGED <<clock, issued, enc, wire, auth>>
    /\ UNCHANGED lsbVars
    /\ UNCHANGED fnVars
    /\ UNCHANGED storeVars

\* is_qr_authorized_for_document(qr_data, document_key, document_path)
Authorize(qr_data, document_key, document_path) ==
    /\ secPhase \in {"encrypted", "decrypted"}
    /\ auth' = [NoCall EXCEPT !.called = TRUE, !.data = qr_data,
                              !.key = document_key, !.path = document_path,
                              !.result = is_qr_authorized_for_document(
                                  qr_data, document_key,
                                  DocContent(document_path))]
    /\ secPhase' = "done"
    /\ UNCHANGED <<clock, issued, enc, wire, dec>>
    /\ UNCHANGED lsbVars
    /\ UNCHANGED fnVars
    /\ UNCHANGED storeVars

SecNext ==
    \/ \E path \in Paths, data \in AdditionalData : GenerateKey(path, data)
    \/ Tick
    \/ \E text \in PlainTexts, key \in IssuedKeys \cup {ShortKey} :
           Encrypt(text, key)
    \/ \E kind \in {"strip_prefix", "flip_byte", "insert_junk"} : AlterWire(kind)
    \/ \E key \in IssuedKeys \cup {Variant(k) : k \in IssuedKeys} \cup {ShortKey} :
           Decrypt(key)
    \/ \E data \in {wire, PlainData(enc.plain)},
          key \in IssuedKeys \cup {ShortKey}, path \in Paths :
           Authorize(data, key, path)

SpecSec == SecInit /\ [][SecNext]_vars

(***************************************************************************)
(* The planning, key and header functions called on their own: every step  *)
(* is one call, recorded in fn with its arguments and its result.          *)
(***************************************************************************)
\* Clock readings of generate_document_key calls: the last second of an
\* hour bucket, the first and the last second of the next one, and the
\* first second of the one after.
KeyTimes == {1699999199, 1699999200, 1700002799, 1700002800}

\* The document contents (see DocContent).
Contents == {DocContent(p) : p \in Paths}

FnInit ==
    /\ LsbIdle
    /\ SecIdle
    /\ FnIdle
    /\ StoreIdle

\* fn holds nothing yet, or one call of an operation out of ops
FirstOrAfter(ops) == fn = <<>> \/ (Len(fn) = 1 /\ fn[1].op \in ops)

\* The last call made is one of op
LastCallOf(op) == fn # <<>> /\ fn[Len(fn)].op = op
LastCall == fn[Len(fn)]

\* generate_document_key(document_path, additional_data) at clock reading
\* now, the document holding content
CallGenerateKey(content, additional_data, now) ==
    /\ FirstOrAfter({"generate_document_key"})
    /\ fn' = Append(fn, [op |-> "generate_document_key",
                         result |-> generate_document_key(content,
                                                          additional_data, now),
                         args |-> [content |-> content,
                                   additional_data |-> additional_data,
                                   now |-> now]])
    /\ UNCHANGED lsbVars
    /\ UNCHANGED secVars
    /\ UNCHANGED storeVars

\* Payload bit strings, timestamps (wide) and cuts of the 80 header bits
\* for the header functions, and the clock reading of a validation.
HeaderPayloads == {<<0>>, <<1, 0, 1>>}
HeaderTimes == {<<0, 0>>, ToWide(1700000000), ToWide(1700046679), <<65535, 65535>>}
HeaderCuts == {0, 40, 79, 80}
ValidationTime == 1700003600

\* add_security_header(qr_bits, key_hash, timestamp)
CallAddHeader(qr_bits, key_hash, timestamp) ==
    /\ fn = <<>>
    /\ fn' = <<[op |-> "add_security_header",
                result |-> add_security_header(qr_bits, key_hash, timestamp),
                args |-> [qr_bits |-> qr_bits, key_hash |-> key_hash,
                          timestamp |-> timestamp]]>>
    /\ UNCHANGED lsbVars
    /\ UNCHANGED secVars
    /\ UNCHANGED storeVars

\* parse_security_header(extracted_bits[:80]) when only n bits of the header
\* just made are there
CallParseHeader(n) ==
    /\ Len(fn) = 1 /\ fn[1].op = "add_security_header"
    /\ LET extracted_bits == SubSeq(fn[1].result, 1, n)
       IN  fn' = Append(fn, [op |-> "parse_security_header",
                             result |-> parse_security_header(extracted_bits),
                             args |-> [extracted_bits |-> extracted_bits]])
    /\ UNCHANGED lsbVars
    /\ UNCHANGED secVars
    /\ UNCHANGED storeVars

\* validate_embedded_security(extracted_header, document_key) on the header
\* just parsed
CallValidateSecurity(document_key, current_time) ==
    /\ Len(fn) = 2 /\ fn[2].op = "parse_security_header"
    /\ fn' = Append(fn, [op |-> "validate_embedded_security",
                         result |-> validate_embedded_security(
                                        fn[2].result, document_key,
                                        current_time),
                         args |-> [current_time |-> current_time,
                                   extracted_header |-> fn[2].result,
                                   document_key |-> document_key]])
    /\ UNCHANGED lsbVars
    /\ UNCHANGED secVars
    /\ UNCHANGED storeVars

\* Sizes for the planning functions: covers of 35, 40, 41, 42, 49 and 100
\* pixels, which are embedded into, and the sizes that are only planned
\* with; matrices from one cell to 21 x 21, square and not.
PlanCoverShapes == {<<5, 7>>, <<8, 5>>, <<41, 1>>, <<6, 7>>, <<7, 7>>, <<10, 10>>}
PlanOnlyCoverShapes ==
    {<<100, 100>>, <<25, 25>>, <<10, 5>>, <<8, 7>>, <<41, 2>>, <<9, 5>>}
PlanMatrixShapes ==
    {<<1, 1>>, <<2, 1>>, <<2, 2>>, <<5, 1>>, <<3, 4>>, <<7, 7>>, <<8, 8>>,
     <<21, 21>>, <<1, 61>>}
PlanCapacities == {35, 40, 41, 42, 49, 89, 100}

\* validate_qr_for_image(qr_width, qr_height, image_width, image_height)
CallValidateQr(qr_width, qr_height, image_width, image_height) ==
    /\ FirstOrAfter({"validate_qr_for_image"})
    /\ fn' = Append(fn, [op |-> "validate_qr_for_image",
                         result |-> validate_qr_for_image(
                                        qr_width, qr_height,
                                        image_width, image_height),
                         args |-> [qr_width |-> qr_width,
                                   qr_height |-> qr_height,
                                   image_width |-> image_width,
                                   image_height |-> image_height]])
    /\ UNCHANGED lsbVars
    /\ UNCHANGED secVars
    /\ UNCHANGED storeVars

\* embed_qr_to_image(cover, qr, stego_path, resize_qr_if_needed), on its
\* own or after a validate_qr_for_image call
CallEmbed(cover_img, qr_img, resize_qr_if_needed) ==
    /\ FirstOrAfter({"validate_qr_for_image"})
    /\ fn' = Append(fn, [op |-> "embed_qr_to_image",
                         result |-> embed_qr_to_image(cover_img, qr_img,
                                                      resize_qr_if_needed),
                         args |-> [qr |-> qr_img, resize_qr_if_needed |-> resize_qr_if_needed,
                                   cover |-> cover_img]])
    /\ UNCHANGED lsbVars
    /\ UNCHANGED secVars
    /\ UNCHANGED storeVars

\* _resize_qr_for_capacity(qr_img, max_capacity)
CallResize(qr_img, max_capacity) ==
    /\ fn = <<>>
    /\ fn' = <<[op |-> "_resize_qr_for_capacity",
                result |-> _resize_qr_for_capacity(qr_img, max_capacity),
                args |-> [qr |-> qr_img, max_capacity |-> max_capacity]]>>
    /\ UNCHANGED lsbVars
    /\ UNCHANGED secVars
    /\ UNCHANGED storeVars

\* _resize_qr_for_capacity on the matrix the call before returned
CallResizeAgain(max_capacity) ==
    /\ Len(fn) = 1 /\ fn[1].op = "_resize_qr_for_capacity"
    /\ ~fn[1].result.raised
    /\ fn' = Append(fn, [op |-> "_resize_qr_for_capacity",
                         result |-> _resize_qr_for_capacity(fn[1].result.qr,
                                                            max_capacity),
                         args |-> [qr |-> fn[1].result.qr,
                                   max_capacity |-> max_capacity]])
    /\ UNCHANGED lsbVars
    /\ UNCHANGED secVars
    /\ UNCHANGED storeVars

\* extract_secure_qr_from_image(stego_path, document_key, output_path) of an
\* image that was never embedded into, of 35 to 100 pixels
ExtractShapes == PlanCoverShapes \cup {<<79, 1>>, <<80, 1>>}

CallExtractSecure(stego_file, document_key, current_time) ==
    /\ fn = <<>> \/ LastCallOf("validate_embedded_security")
    /\ fn' = Append(fn, [op |-> "extract_secure_qr_from_image",
                         result |-> extract_secure_qr_from_image(
                                        stego_file, document_key,
                                        current_time),
                         args |-> [current_time |-> current_time,
                                   document_key |-> document_key,
                                   stego |-> stego_file]])
    /\ UNCHANGED lsbVars
    /\ UNCHANGED secVars
    /\ UNCHANGED storeVars

\* Covers and matrices for the wrappers with an optional key: covers of 35
\* to 125 pixels (124 = 120 + 4 is the exact fit of the secure stream of the
\* encoded matrix).
WrapperCoverShapes == PlanCoverShapes \cup {<<62, 2>>, <<25, 5>>}
WrapperMatrixShapes == {<<1, 1>>, <<2, 1>>, <<2, 2>>}
WrapperKeys == {NoSecurityKey, KEY_A}

\* embed_qr_to_image_secure(cover, qr, stego_path, security_key,
\* resize_qr_if_needed) at clock reading current_timestamp
CallEmbedWrapper(cover_img, qr_img, security_key, resize_qr_if_needed, current_timestamp) ==
    /\ fn = <<>>
    /\ fn' = <<[op |-> "embed_qr_to_image_secure",
                result |-> embed_qr_to_image_secure(
                               cover_img, qr_img, security_key,
                               resize_qr_if_needed, current_timestamp),
                args |-> [qr |-> qr_img, resize_qr_if_needed |-> resize_qr_if_needed,
                          current_timestamp |-> current_timestamp,
                          security_key |-> security_key,
                          cover |-> cover_img]]>>
    /\ UNCHANGED lsbVars
    /\ UNCHANGED secVars
    /\ UNCHANGED storeVars

\* extract_qr_from_image_secure(stego_path, out_path, security_key) of what
\* the wrapper call before left at the stego path
CallExtractWrapper(security_key, current_time) ==
    /\ Len(fn) = 1 /\ fn[1].op = "embed_qr_to_image_secure"
    /\ fn' = Append(fn, [op |-> "extract_qr_from_image_secure",
                         result |-> extract_qr_from_image_secure(
                                        fn[1].result.file, security_key,
                                        current_time),
                         args |-> [current_time |-> current_time,
                                   security_key |-> security_key,
                                   stego |-> fn[1].result.file]])
    /\ UNCHANGED lsbVars
    /\ UNCHANGED secVars
    /\ UNCHANGED storeVars

FnNext ==
    \/ \E m \in PlanMatrixShapes, c \in PlanCoverShapes \cup PlanOnlyCoverShapes :
           CallValidateQr(m[1], m[2], c[1], c[2])
    \/ \E m \in PlanMatrixShapes, c \in PlanCoverShapes, resize \in BOOLEAN :
           CallEmbed(CoverImage(c[1], c[2], "alt"), QrImage(m[1], m[2], "mixed"),
                     resize)
    \/ \E m \in PlanMatrixShapes, c \in PlanCapacities :
           CallResize(QrImage(m[1], m[2], "mixed"), c)
    \/ \E c \in PlanCapacities : CallResizeAgain(c)
    \/ \E bits \in HeaderPayloads, key \in {KEY_A, KEY_C}, t \in HeaderTimes :
           CallAddHeader(bits, key, t)
    \/ \E n \in HeaderCuts : CallParseHeader(n)
    \/ \E key \in Keys : CallValidateSecurity(key, ValidationTime)
    \/ \E c \in ExtractShapes, key \in {KEY_A, KEY_C} :
           CallExtractSecure(CoverImage(c[1], c[2], "alt"), key, ValidationTime)
    \/ \E c \in WrapperCoverShapes, m \in WrapperMatrixShapes,
          key \in WrapperKeys, resize \in BOOLEAN :
           CallEmbedWrapper(CoverImage(c[1], c[2], "alt"),
                            QrImage(m[1], m[2], "mixed"), key, resize,
                            ValidationTime - 3600)
    \/ \E key \in WrapperKeys : CallExtractWrapper(key, ValidationTime)
    \/ \E content \in Contents, data \in AdditionalData, now \in KeyTimes :
           CallGenerateKey(content, data, now)

SpecFn == FnInit /\ [][FnNext]_vars

(***************************************************************************)
(* The operations of the key store.                                        *)
(***************************************************************************)
CanAcquireAlways(t) == TRUE

\* `with _storage_lock:` can be entered by thread t
CanAcquire(t) ==
    _storage_lock[ProcessOf(t)] = "free"

CanBegin(t) ==
    /\ worker[t].pc = "idle"
    /\ CanAcquire(t)
    /\ begun < StoreMaxOps

\* Another process is inside the replacement of a storage file that held
\* documents by a temporary file that holds documents: before its
\* os.remove or between that and its os.rename.
SaveInProgressElsewhere(t) ==
    \E u \in AllThreads :
        /\ ProcessOf(u) # ProcessOf(t)
        /\ worker[u].pc \in {"remove", "rename"}
        /\ DocumentHashes(worker[u].loaded) # {}
        /\ DocumentHashes(worker[u].data) # {}

\* The call of thread t returns result without saving.
ReturnAtOnce(t, call, l, result) ==
    /\ done' = [now |-> sclock, result |-> result, t |-> t,
                call |-> call, file_before |-> sfile,
                loaded |-> l.data,
                during_save |-> SaveInProgressElsewhere(t)]
    /\ ledger' = LedgerAfter(call, result, sclock)
    /\ UNCHANGED <<worker, _storage_lock>>

\* The call of thread t goes on to save data and will return result.
GoOnToSave(t, call, l, data, result) ==
    /\ worker' = [worker EXCEPT ![t] =
                    [data |-> TempFileOf(data), now |-> sclock, result |-> result,
                     pc |-> "remove", call |-> call, file_before |-> sfile,
                     loaded |-> l.data,
                     during_save |-> SaveInProgressElsewhere(t)]]
    /\ _storage_lock' = [_storage_lock EXCEPT ![ProcessOf(t)] = t]
    /\ UNCHANGED <<done, ledger>>

\* The first step of every operation: the lock, the load and the counter.
Begins(t, l) ==
    /\ CanBegin(t)
    /\ begun' = begun + 1
    /\ sfile' = l.file
    /\ corrupted' = (corrupted \/ l.renamed)
    /\ UNCHANGED sclock
    /\ UNCHANGED lsbVars
    /\ UNCHANGED secVars
    /\ UNCHANGED fnVars

\* store_document_key(document_hash, {"document_key": document_key})
StoreDocumentKey(t, document_hash, document_key) ==
    LET l == _load_storage_data(sfile)
        call == [NoCallYet EXCEPT !.op = "store_document_key",
                                  !.h = document_hash, !.key = document_key]
        document_entry == StoredEntry(l.data, document_hash, document_key, sclock)
    IN  /\ Begins(t, l)
        /\ IF l.raised
           THEN ReturnAtOnce(t, call, l, Result("SecurityStorageError"))
           ELSE GoOnToSave(t, call, l,
                           [l.data EXCEPT !.documents[document_hash] =
                                              document_entry],
                           Result("True"))

\* retrieve_document_key(document_hash)
RetrieveDocumentKey(t, document_hash) ==
    LET l == _load_storage_data(sfile)
        call == [NoCallYet EXCEPT !.op = "retrieve_document_key",
                                  !.h = document_hash]
        document_entry == AccessedEntry(l.data.documents[document_hash], sclock)
    IN  /\ Begins(t, l)
        /\ IF l.raised
           THEN ReturnAtOnce(t, call, l, Result("SecurityStorageError"))
           ELSE IF ~l.data.documents[document_hash].present
           THEN ReturnAtOnce(t, call, l, Result("None"))
           ELSE GoOnToSave(t, call, l,
                           [l.data EXCEPT !.documents[document_hash] =
                                              document_entry],
                           [Result("entry") EXCEPT !.entry = document_entry])

\* delete_document_key(document_hash)
DeleteDocumentKey(t, document_hash) ==
    LET l == _load_storage_data(sfile)
        call == [NoCallYet EXCEPT !.op = "delete_document_key",
                                  !.h = document_hash]
    IN  /\ Begins(t, l)
        /\ IF l.raised
           THEN ReturnAtOnce(t, call, l, Result("SecurityStorageError"))
           ELSE IF ~l.data.documents[document_hash].present
           THEN ReturnAtOnce(t, call, l, Result("False"))
           ELSE GoOnToSave(t, call, l,
                           RemoveDocuments(l.data, {document_hash}),
                           Result("True"))

\* cleanup_expired_keys(days)
CleanupExpiredKeys(t, days) ==
    LET l == _load_storage_data(sfile)
        call == [NoCallYet EXCEPT !.op = "cleanup_expired_keys", !.days = days]
        expired_documents == ExpiredDocuments(l.data, days, sclock)
        remaining == RemoveDocuments(l.data, expired_documents)
        cleanup_stats ==
            [total_documents_before |-> Cardinality(DocumentHashes(l.data)),
             expired_documents_found |-> Cardinality(expired_documents),
             documents_removed |-> Cardinality(expired_documents),
             documents_remaining |-> Cardinality(DocumentHashes(remaining))]
    IN  /\ Begins(t, l)
        /\ IF l.raised \/ CleanupRaises(l.data)
           THEN ReturnAtOnce(t, call, l, Result("SecurityStorageError"))
           ELSE GoOnToSave(t, call, l, remaining,
                           [Result("stats") EXCEPT !.stats = cleanup_stats,
                                                   !.removed = expired_documents])

\* list_secured_documents()
ListSecuredDocuments(t) ==
    LET l == _load_storage_data(sfile)
        call == [NoCallYet EXCEPT !.op = "list_secured_documents"]
    IN  /\ Begins(t, l)
        /\ IF l.raised
           THEN ReturnAtOnce(t, call, l, Result("SecurityStorageError"))
           ELSE ReturnAtOnce(t, call, l,
                             [Result("list") EXCEPT
                                  !.listed = DocumentHashes(l.data)])

\* import_security_backup(backup_data), the backup holding documents
ImportSecurityBackup(t, documents) ==
    LET l == _load_storage_data(sfile)
        call == [NoCallYet EXCEPT !.op = "import_security_backup",
                                  !.documents = documents]
    IN  /\ Begins(t, l)
        /\ IF l.raised
           THEN ReturnAtOnce(t, call, l, Result("SecurityStorageError"))
           ELSE GoOnToSave(t, call, l, MergedDocuments(l.data, documents),
                           Result("True"))

\* _save_storage_data: if os.path.exists(STORAGE_FILE): os.remove(STORAGE_FILE)
SaveRemove(t) ==
    /\ worker[t].pc = "remove"
    /\ sfile' = AbsentFile
    /\ worker' = [worker EXCEPT ![t].pc = "rename"]
    /\ UNCHANGED <<corrupted, sclock, _storage_lock, done, ledger, begun>>
    /\ UNCHANGED lsbVars
    /\ UNCHANGED secVars
    /\ UNCHANGED fnVars

\* _save_storage_data: os.rename(temp_file, STORAGE_FILE); then the
\* operation returns and leaves `with _storage_lock:`
SaveRename(t) ==
    /\ worker[t].pc = "rename"
    /\ sfile' = worker[t].data
    /\ done' = [now |-> worker[t].now, result |-> worker[t].result,
                t |-> t,
                call |-> worker[t].call, file_before |-> worker[t].file_before,
                loaded |-> worker[t].loaded,
                during_save |-> worker[t].during_save]
    /\ ledger' = LedgerAfter(worker[t].call, worker[t].result, worker[t].now)
    /\ worker' = [worker EXCEPT ![t] = IdleWorker]
    /\ _storage_lock' = [_storage_lock EXCEPT ![ProcessOf(t)] = "free"]
    /\ UNCHANGED <<corrupted, sclock, begun>>
    /\ UNCHANGED lsbVars
    /\ UNCHANGED secVars
    /\ UNCHANGED fnVars

\* A day passes (between operations: an operation reads the clock in its
\* first step only).
NextDay ==
    /\ sclock < StoreMaxDay
    /\ \A t \in AllThreads : worker[t].pc = "idle"
    /\ sclock' = sclock + 1
    /\ UNCHANGED <<sfile, corrupted, _storage_lock, worker, done, ledger, begun>>
    /\ UNCHANGED lsbVars
    /\ UNCHANGED secVars
    /\ UNCHANGED fnVars

\* The storage file found at the start: none, one that is not JSON, or
\* JSON that is no store (a list, say).
InitialFiles == {AbsentFile, FileOf("not_json"), FileOf("not_a_store")}

StoreInit ==
    /\ LsbIdle
    /\ SecIdle
    /\ FnIdle
    /\ sfile \in InitialFiles
    /\ corrupted = FALSE
    /\ sclock = 0
    /\ _storage_lock = [p \in Processes |-> "free"]
    /\ worker = [t \in AllThreads |-> IdleWorker]
    /\ done = NoDone
    /\ ledger = [h \in Hashes |-> AbsentLedger]
    /\ begun = 0

\* Thread t1 calls every operation; thread t2 calls the four operations
\* that change the documents, on fixed arguments.
StoreNext ==
    \/ \E h \in Hashes, k \in StoreKeys : StoreDocumentKey("t1", h, k)
    \/ StoreDocumentKey("t2", "h2", "k2")
    \/ \E h \in Hashes : RetrieveDocumentKey("t1", h)
    \/ RetrieveDocumentKey("t2", "h1")
    \/ \E h \in Hashes : DeleteDocumentKey("t1", h)
    \/ DeleteDocumentKey("t2", "h1")
    \/ \E t \in Threads, days \in CleanupDays : CleanupExpiredKeys(t, days)
    \/ ListSecuredDocuments("t1")
    \/ \E b \in Backups : ImportSecurityBackup("t1", b)
    \/ \E t \in Threads : SaveRemove(t)
    \/ \E t \in Threads : SaveRename(t)
    \/ NextDay

SpecStore == StoreInit /\ [][StoreNext]_vars

(***************************************************************************)
(* The key store used by two processes: thread t1 of one process and       *)
(* thread q of another work on the same security_keys.json.  _storage_lock *)
(* is an object of each process, and _save_storage_data takes no lock on   *)
(* the storage file, so nothing orders the steps of the two.               *)
(***************************************************************************)
ProcInit ==
    /\ LsbIdle
    /\ SecIdle
    /\ FnIdle
    /\ StoreIdle

ProcNext ==
    \/ \E t \in {"t1", "q"}, h \in Hashes, k \in StoreKeys :
          StoreDocumentKey(t, h, k)
    \/ \E t \in {"t1", "q"}, h \in Hashes : RetrieveDocumentKey(t, h)
    \/ \E t \in {"t1", "q"} : SaveRemove(t)
    \/ \E t \in {"t1", "q"} : SaveRename(t)

SpecProc == ProcInit /\ [][ProcNext]_vars

(***************************************************************************)
(* Shorthands for the properties.                                          *)
(***************************************************************************)
StdEmbedded == emb.op = "embed_qr_to_image"
SecureEmbedded == emb.op = "embed_secure_qr_to_image"
StdExtracted == phase = "extracted" /\ ext.op = "extract_qr_from_image"
SecureExtracted == phase = "extracted" /\ ext.op = "extract_secure_qr_from_image"

\* the CRC-16 over (payload bits + key + timestamp) as add_security_header
\* forms it
ChecksumOf(qr_img, key, timestamp) ==
    _calculate_crc16(BitChars(QrBitsOf(qr_img)) \o key \o DecimalChars(timestamp))

\* cells in which two matrices of the same shape differ (1-based, raster)
DifferingCells(a, b) == {k \in 1..Len(a.cells) : a.cells[k] # b.cells[k]}

(***************************************************************************)
(* C1.  Non-secure round trip: whenever 40 + w*h <= W*H, extracting from   *)
(* the stego image written by embed_qr_to_image(cover, M) reconstructs a   *)
(* w x h matrix equal to M cell by cell.                                   *)
(***************************************************************************)
C1_RoundTrip ==
    (/\ StdExtracted
     /\ StdEmbedded
     /\ flips = {}
     /\ 40 + qr.w * qr.h <= cover.w * cover.h)
    => (/\ ext.result.outcome = "saved"
        /\ ext.result.qr_width = qr.w
        /\ ext.result.qr_height = qr.h
        /\ ext.result.qr = qr)

\* a round trip that did work: a 2 x 2 mixed matrix came back
C1_Witness ==
    /\ StdExtracted /\ StdEmbedded /\ flips = {}
    /\ qr = QrImage(2, 2, "mixed")
    /\ ext.result.outcome = "saved"
    /\ ext.result.qr = qr

(***************************************************************************)
(* C4.  A genuine payload is authorized: secure-embedded with key K and    *)
(* read back with the same K inside the timestamp bound, the validation    *)
(* has key_valid, timestamp_valid, checksum_valid and overall_valid true   *)
(* and security_score = 100.                                               *)
(***************************************************************************)
C4_GenuineAuthorized ==
    (/\ SecureExtracted
     /\ SecureEmbedded /\ emb.outcome = "saved"
     /\ flips = {}
     /\ ext.key = emb.key
     /\ ext.now - emb.ts <= TEN_YEARS)
    => (/\ ext.result.outcome = "saved"
        /\ ext.result.validation.key_valid
        /\ ext.result.validation.timestamp_valid
        /\ ext.result.validation.checksum_valid
        /\ ext.result.validation.overall_valid
        /\ ext.result.validation.security_score = 100)

\* a genuine payload that did validate with score 100
C4_Witness ==
    /\ SecureExtracted /\ SecureEmbedded /\ emb.outcome = "saved"
    /\ flips = {} /\ ext.key = emb.key
    /\ ext.result.validation.security_score = 100

(***************************************************************************)
(* C5.  Wrong key: a payload secure-embedded with K and validated with a   *)
(* key K2 # K is reported key_valid = false, overall_valid = false and     *)
(* security_score <= 50.                                                   *)
(***************************************************************************)
C5_WrongKeyRejected ==
    (/\ SecureExtracted
     /\ SecureEmbedded /\ emb.outcome = "saved"
     /\ flips = {}
     /\ ext.key # emb.key)
    => (/\ ~ext.result.validation.key_valid
        /\ ~ext.result.validation.overall_valid
        /\ ext.result.validation.security_score <= 50)

(***************************************************************************)
(* C5 (amended).  A payload secure-embedded with K and validated with a    *)
(* key K2 whose 32-bit SHA-256 fingerprint differs from that of K is       *)
(* reported key_valid = false, overall_valid = false and                   *)
(* security_score <= 50.                                                   *)
(***************************************************************************)
C5_DifferentFingerprintRejected ==
    (/\ SecureExtracted
     /\ SecureEmbedded /\ emb.outcome = "saved"
     /\ flips = {}
     /\ Sha256Prefix32(ext.key) # Sha256Prefix32(emb.key))
    => (/\ ~ext.result.validation.key_valid
        /\ ~ext.result.validation.overall_valid
        /\ ext.result.validation.security_score <= 50)

\* validation with a key of another fingerprint came back with the other
\* two checks passed: exactly 50 points
C5_Witness ==
    /\ SecureExtracted /\ SecureEmbedded /\ emb.outcome = "saved"
    /\ flips = {}
    /\ emb.key = KEY_A /\ ext.key = KEY_C
    /\ ext.result.outcome = "saved"
    /\ ext.result.validation.security_score = 50

(***************************************************************************)
(* C6.  The checksum check is an exact recomputation: with the security    *)
(* header intact, checksum_valid is true if and only if the CRC-16         *)
(* recomputed from the extracted payload bits, the key and the timestamp   *)
(* equals the checksum stored in the header.                               *)
(***************************************************************************)
C6_ChecksumExact ==
    (/\ SecureExtracted
     /\ SecureEmbedded /\ emb.outcome = "saved"
     /\ flips \cap (0..119) = {}
     /\ ext.key = emb.key
     /\ ext.result.outcome = "saved")
    => (ext.result.validation.checksum_valid
          <=> (ChecksumOf(ext.result.qr, ext.key, emb.ts)
                 = ChecksumOf(emb.qr, emb.key, emb.ts)))

(***************************************************************************)
(* C7.  Non-secure framing: if stream bits 32..39 of the image are not all *)
(* zero, extract_qr_from_image ends in an error without reconstructing a   *)
(* matrix, and its header search has read at most 40 + 500 + 1 pixels.     *)
(***************************************************************************)
C7_TerminatorRequired ==
    (/\ StdExtracted
     /\ stego.exists
     /\ Len(stego.px) >= 40
     /\ SubSeq(BlueLsbs(stego), 33, 40) # HEADER_TERMINATOR_BIN)
    => (/\ ext.result.outcome = "ValueError"
        /\ ext.result.qr = NoMatrix
        /\ ext.result.read <= 40 + 500 + 1)

\* a stego image whose first terminator bit was flipped and whose stream
\* holds a run of eight zeros right after it (bits 33..40): refused
C7_Witness ==
    /\ StdExtracted /\ StdEmbedded /\ emb.outcome = "saved"
    /\ flips = {32}
    /\ SubSeq(BlueLsbs(stego), 34, 41) = HEADER_TERMINATOR_BIN
    /\ ext.result.outcome = "ValueError"

(***************************************************************************)
(* C8.  Secure framing: if one of the terminator bits 112..119 of a secure *)
(* stego image is flipped, extract_secure_qr_from_image reports failure    *)
(* and reconstructs no matrix.                                             *)
(***************************************************************************)
C8_SecureTerminatorStrict ==
    (/\ SecureExtracted
     /\ SecureEmbedded /\ emb.outcome = "saved"
     /\ flips # {} /\ flips \subseteq 112..119)
    => (/\ ext.result.outcome = "failure"
        /\ ext.result.qr = NoMatrix)

(***************************************************************************)
(* C9.  Payload corruption does not touch framing: after one LSB flip      *)
(* inside the payload region (stream index i, 40 <= i < 40 + w*h           *)
(* non-secure, 120 <= i < 120 + w*h secure) the extraction still decodes   *)
(* the embedded width and height, and the reconstructed matrix differs     *)
(* from the embedded one in exactly the cell of that stream index.         *)
(***************************************************************************)
PayloadFlipLocal(start) ==
    \A i \in flips :
        (start <= i /\ i < start + emb.qr.w * emb.qr.h)
        => (/\ ext.result.outcome = "saved"
            /\ ext.result.qr_width = emb.qr.w
            /\ ext.result.qr_height = emb.qr.h
            /\ DifferingCells(ext.result.qr, emb.qr) = {i - start + 1})

C9_PayloadFlipLocal ==
    /\ (StdExtracted /\ StdEmbedded /\ emb.outcome = "saved")
          => PayloadFlipLocal(40)
    /\ (SecureExtracted /\ SecureEmbedded /\ emb.outcome = "saved")
          => PayloadFlipLocal(120)

\* the second payload bit of a secure 2 x 2 payload was flipped and the
\* matrix came back with exactly its second cell changed
C9_Witness ==
    /\ SecureExtracted /\ SecureEmbedded /\ emb.outcome = "saved"
    /\ flips = {121}
    /\ emb.qr.w = 2 /\ emb.qr.h = 2
    /\ ext.result.outcome = "saved"
    /\ DifferingCells(ext.result.qr, emb.qr) = {2}


(***************************************************************************)
(* Shorthands for the properties of the security utilities.                *)
(***************************************************************************)
\* the key is one generate_document_key gives for the document at path
KeyDerivedFrom(key, path) ==
    \E data \in AdditionalData, k \in 0..MaxTicks :
        key = generate_document_key(DocContent(path), data,
                                    ClockStart + k * 1800)

GeneratedKey(key) == \E path \in Paths : KeyDerivedFrom(key, path)

\* decrypt_qr_data was handed exactly what encrypt_qr_data returned, with
\* the key of the encryption
DecryptedBack ==
    /\ enc.called /\ dec.called
    /\ dec.data = enc.data
    /\ dec.key = enc.key

C10_DocumentBinding ==
    (auth.called /\ auth.result) => KeyDerivedFrom(auth.key, auth.path)

(***************************************************************************)
(* Shorthands for the properties of the functions called on their own.     *)
(***************************************************************************)
\* fn holds two calls of the operation op
TwoCallsOf(op) == Len(fn) = 2 /\ fn[1].op = op /\ fn[2].op = op

(***************************************************************************)
(* C11.  Key derivation determinism: two calls of generate_document_key    *)
(* on the same document content with the same additional_data return the   *)
(* same key when floor(now / 3600) is the same for both, and different     *)
(* keys when the buckets, the contents or the additional_data differ.      *)
(***************************************************************************)
C11_KeyDeterminism ==
    TwoCallsOf("generate_document_key") =>
        LET a == fn[1].args
            b == fn[2].args
        IN  (fn[1].result = fn[2].result)
              <=> (/\ a.content = b.content
                   /\ a.additional_data = b.additional_data
                   /\ a.now \div 3600 = b.now \div 3600)

\* two calls at the first and at the last second of one hour gave one key
C11_Witness ==
    /\ TwoCallsOf("generate_document_key")
    /\ fn[1].args.content = fn[2].args.content
    /\ fn[1].args.additional_data = fn[2].args.additional_data
    /\ fn[1].args.now = 1699999200
    /\ fn[2].args.now = 1700002799
    /\ fn[1].result = fn[2].result

(***************************************************************************)
(* C12.  Validator aggregation: every result of validate_embedded_security *)
(* for a well-formed header has security_score = 50 * key_valid            *)
(* + 25 * timestamp_valid + 25 * checksum_valid, and overall_valid holds   *)
(* exactly when all three checks hold, which is exactly when the score is  *)
(* 100.                                                                    *)
(***************************************************************************)
C12_ValidatorAggregation ==
    (/\ LastCallOf("validate_embedded_security")
     /\ LastCall.args.extracted_header.header_valid)
    => LET v == LastCall.result
           weight(b, n) == IF b THEN n ELSE 0
       IN  /\ v.security_score = weight(v.key_valid, 50)
                                   + weight(v.timestamp_valid, 25)
                                   + weight(v.checksum_valid, 25)
           /\ v.security_score \in {0, 25, 50, 75, 100}
           /\ v.overall_valid
                <=> (v.key_valid /\ v.timestamp_valid /\ v.checksum_valid)
           /\ v.overall_valid <=> v.security_score = 100

\* a header whose key and timestamp pass and whose checksum is 0: 75, no pass
C12_Witness ==
    /\ LastCallOf("validate_embedded_security")
    /\ LastCall.args.extracted_header.header_valid
    /\ LastCall.result.key_valid
    /\ LastCall.result.timestamp_valid
    /\ ~LastCall.result.checksum_valid
    /\ LastCall.result.security_score = 75
    /\ ~LastCall.result.overall_valid

\* the largest s with 40 + s * s <= capacity, for a capacity above 40
LargestSquare(capacity) ==
    CHOOSE k \in 1..capacity :
        /\ 40 + k * k <= capacity
        /\ capacity < 40 + (k + 1) * (k + 1)

(***************************************************************************)
(* C13.  Auto-shrink: when 40 + w*h > W*H, W*H > 40 and                    *)
(* resize_qr_if_needed is true, embed_qr_to_image resizes the matrix to    *)
(* s x s, s = floor(sqrt(W*H - 40)) >= 1 being the largest square that     *)
(* fits; the final capacity validation does not fail, and the stego image  *)
(* is written with a header that records s x s.                            *)
(***************************************************************************)
C13_AutoShrink ==
    (/\ LastCallOf("embed_qr_to_image")
     /\ LastCall.args.resize_qr_if_needed
     /\ 40 + LastCall.args.qr.w * LastCall.args.qr.h
          > LastCall.args.cover.w * LastCall.args.cover.h
     /\ LastCall.args.cover.w * LastCall.args.cover.h > 40)
    => LET r == LastCall.result
           s == LargestSquare(LastCall.args.cover.w * LastCall.args.cover.h)
           header == _int_to_binary(s, 16) \o _int_to_binary(s, 16)
                       \o HEADER_TERMINATOR_BIN
       IN  /\ r.outcome = "saved"
           /\ r.qr.w = s /\ r.qr.h = s
           /\ Len(r.bits) = 40 + s * s
           /\ SubSeq(r.bits, 1, 40) = header
           /\ SubSeq(BlueLsbs(r.image), 1, 40) = header

(***************************************************************************)
(* C14.  Strict mode: when 40 + w*h > W*H and resize_qr_if_needed is       *)
(* false, embed_qr_to_image raises a capacity error whose message reports  *)
(* the deficit (40 + w*h) - W*H and nothing else, no bit is put into any   *)
(* pixel and no stego image is written.                                    *)
(***************************************************************************)
C14_StrictCapacityError ==
    (/\ LastCallOf("embed_qr_to_image")
     /\ ~LastCall.args.resize_qr_if_needed
     /\ 40 + LastCall.args.qr.w * LastCall.args.qr.h
          > LastCall.args.cover.w * LastCall.args.cover.h)
    => LET r == LastCall.result
       IN  /\ r.outcome = "ValueError"
           /\ r.error.numbers
                = <<(40 + LastCall.args.qr.w * LastCall.args.qr.h)
                      - LastCall.args.cover.w * LastCall.args.cover.h>>
           /\ r.bits = <<>>
           /\ r.image = LastCall.args.cover

\* the 21 x 21 matrix refused for the 10 x 10 cover, 381 bits short
C14_Witness ==
    /\ LastCallOf("embed_qr_to_image")
    /\ ~LastCall.args.resize_qr_if_needed
    /\ LastCall.args.cover.w = 10 /\ LastCall.args.cover.h = 10
    /\ LastCall.args.qr.w = 21 /\ LastCall.args.qr.h = 21
    /\ LastCall.result.outcome = "ValueError"
    /\ LastCall.result.error = Message("capacity", <<381>>)

(***************************************************************************)
(* C15.  Shrink idempotence: for a capacity c > 40,                        *)
(* _resize_qr_for_capacity applied with c to what it returned for c gives  *)
(* the same dimensions and cells again; and a matrix that is at most       *)
(* s x s, s = floor(sqrt(c - 40)), is returned unchanged.                  *)
(***************************************************************************)
C15_ShrinkIdempotent ==
    /\ (/\ TwoCallsOf("_resize_qr_for_capacity")
        /\ fn[1].args.max_capacity > 40
        /\ fn[2].args.max_capacity = fn[1].args.max_capacity)
       => (/\ ~fn[2].result.raised
           /\ fn[2].result.qr = fn[1].result.qr)
    /\ (/\ LastCallOf("_resize_qr_for_capacity")
        /\ LastCall.args.max_capacity > 40
        /\ LastCall.args.qr.w <= LargestSquare(LastCall.args.max_capacity)
        /\ LastCall.args.qr.h <= LargestSquare(LastCall.args.max_capacity))
       => (/\ ~LastCall.result.raised
           /\ LastCall.result.qr = LastCall.args.qr)

\* the 21 x 21 matrix shrunk to 7 x 7 for 100 bits, and shrunk again
C15_Witness ==
    /\ TwoCallsOf("_resize_qr_for_capacity")
    /\ fn[1].args.max_capacity = 100 /\ fn[2].args.max_capacity = 100
    /\ fn[1].args.qr.w = 21
    /\ fn[1].result.qr.w = 7 /\ fn[1].result.qr.h = 7
    /\ fn[1].result.qr # fn[1].args.qr
    /\ fn[2].result.qr = fn[1].result.qr

(***************************************************************************)
(* C16.  Lower bound of the resize: _resize_qr_for_capacity fails exactly  *)
(* when the capacity is at most 40 bits, its error then reports the bit    *)
(* deficit (what a 1 x 1 matrix with the 40-bit header needs beyond the    *)
(* capacity), and for every capacity of 41 or more it returns a matrix of  *)
(* at least 1 x 1 that fits.                                               *)
(***************************************************************************)
C16_ResizeLowerBound ==
    LastCallOf("_resize_qr_for_capacity") =>
        LET c == LastCall.args.max_capacity
            r == LastCall.result
        IN  /\ r.raised <=> c <= 40
            /\ r.raised => r.error.numbers = <<(40 + 1) - c>>
            /\ c >= 41 => (/\ r.qr.w >= 1 /\ r.qr.h >= 1
                           /\ 40 + r.qr.w * r.qr.h <= c)

(***************************************************************************)
(* C17.  Capacity monotonicity: when validate_qr_for_image reports valid   *)
(* for a matrix w x h and a cover W x H, then for the same matrix and a    *)
(* cover W' x H' with W' >= W and H' >= H it reports valid again, and      *)
(* embed_qr_to_image in strict mode raises no error on that cover.         *)
(***************************************************************************)
C17_CapacityMonotone ==
    (/\ Len(fn) = 2
     /\ fn[1].op = "validate_qr_for_image"
     /\ fn[1].result.valid) =>
        /\ (/\ fn[2].op = "validate_qr_for_image"
            /\ fn[2].args.qr_width = fn[1].args.qr_width
            /\ fn[2].args.qr_height = fn[1].args.qr_height
            /\ fn[2].args.image_width >= fn[1].args.image_width
            /\ fn[2].args.image_height >= fn[1].args.image_height)
               => fn[2].result.valid
        /\ (/\ fn[2].op = "embed_qr_to_image"
            /\ ~fn[2].args.resize_qr_if_needed
            /\ fn[2].args.qr.w = fn[1].args.qr_width
            /\ fn[2].args.qr.h = fn[1].args.qr_height
            /\ fn[2].args.cover.w >= fn[1].args.image_width
            /\ fn[2].args.cover.h >= fn[1].args.image_height)
               => /\ fn[2].result.outcome # "ValueError"
                  /\ fn[2].result.error = NoError

\* A 2 x 2 matrix is valid for a 9 x 5 cover, and the strict embedding into
\* the larger 10 x 10 cover goes through.
C17_Witness ==
    /\ Len(fn) = 2
    /\ fn[1].op = "validate_qr_for_image"
    /\ fn[1].args.qr_width = 2 /\ fn[1].args.qr_height = 2
    /\ fn[1].args.image_width = 9 /\ fn[1].args.image_height = 5
    /\ fn[1].result.valid
    /\ fn[2].op = "embed_qr_to_image"
    /\ ~fn[2].args.resize_qr_if_needed
    /\ fn[2].args.qr.w = 2 /\ fn[2].args.qr.h = 2
    /\ fn[2].args.cover.w = 10 /\ fn[2].args.cover.h = 10
    /\ fn[2].result.outcome = "saved"

(***************************************************************************)
(* C18.  Capacity plan and advisory bands: validate_qr_for_image returns   *)
(* total_bits_needed = w*h + 40, image_capacity = W*H, remaining_capacity  *)
(* = W*H - total and valid exactly when total <= W*H; its warning is the   *)
(* deficit message exactly when not valid, and otherwise the quality-risk  *)
(* one when the utilisation is over 90%, the consider-resizing one when it *)
(* is over 75% and at most 90%, the informational one when it is over 50%  *)
(* and at most 75%, and empty when it is at most 50%.  A 21 x 21 matrix    *)
(* gets no warning on a 100 x 100 cover and consider-resizing on 25 x 25.  *)
(***************************************************************************)
C18_CapacityPlan ==
    LastCallOf("validate_qr_for_image") =>
        LET a == LastCall.args
            r == LastCall.result
            total == a.qr_width * a.qr_height + 40
            capacity == a.image_width * a.image_height
            \* utilisation = total / capacity * 100, compared as integers
            over(percent) == total * 100 > percent * capacity
            band == r.warning.template
        IN  /\ r.total_bits_needed = total
            /\ r.image_capacity = capacity
            /\ r.remaining_capacity = capacity - total
            /\ r.valid <=> total <= capacity
            /\ band = "too_large" <=> ~r.valid
            /\ band = "too_large" => r.warning.numbers = <<total - capacity>>
            /\ r.valid =>
                 /\ band = "very_high" <=> over(90)
                 /\ band = "high" <=> over(75) /\ ~over(90)
                 /\ band = "medium" <=> over(50) /\ ~over(75)
                 /\ band = "" <=> ~over(50)
                 /\ r.warning.numbers = <<>>
            /\ (a.qr_width = 21 /\ a.qr_height = 21 /\ capacity = 100 * 100)
                 => r.warning = NoError
            /\ (a.qr_width = 21 /\ a.qr_height = 21 /\ capacity = 25 * 25)
                 => band = "high"

\* The two examples one after the other: 481 bits of 10000 (no warning),
\* then 481 bits of 625 (76.96%, consider resizing).
C18_Witness ==
    /\ TwoCallsOf("validate_qr_for_image")
    /\ fn[1].args = [qr_width |-> 21, qr_height |-> 21,
                     image_width |-> 100, image_height |-> 100]
    /\ fn[1].result.total_bits_needed = 481
    /\ fn[1].result.remaining_capacity = 9519
    /\ fn[1].result.warning = NoError
    /\ fn[2].args = [qr_width |-> 21, qr_height |-> 21,
                     image_width |-> 25, image_height |-> 25]
    /\ fn[2].result.valid
    /\ fn[2].result.warning.template = "high"

(***************************************************************************)
(* C19.  Security header codec round trip: for every key, timestamp in     *)
(* 0..2^32-1 and payload, add_security_header returns exactly 80 bits,     *)
(* laid out as the 32-bit key fingerprint, the 32-bit timestamp and the    *)
(* 16-bit checksum, and parse_security_header of those 80 bits returns     *)
(* header_valid = true with the same fingerprint, timestamp and checksum.  *)
(***************************************************************************)
C19_HeaderRoundTrip ==
    (fn # <<>> /\ fn[1].op = "add_security_header") =>
        LET a == fn[1].args
            security_header == fn[1].result
            fingerprint == ToWide(Sha256Prefix32(a.key_hash))
            checksum == _calculate_crc16(BitChars(a.qr_bits) \o a.key_hash
                                           \o WideDecimalChars(a.timestamp))
        IN  /\ Len(security_header) = 80
            /\ \A k \in 1..80 : security_header[k] \in {0, 1}
            /\ _binary_to_wide(SubSeq(security_header, 1, 32)) = fingerprint
            /\ _binary_to_wide(SubSeq(security_header, 33, 64)) = a.timestamp
            /\ _binary_to_int(SubSeq(security_header, 65, 80)) = checksum
            /\ (/\ Len(fn) >= 2
                /\ fn[2].op = "parse_security_header"
                /\ fn[2].args.extracted_bits = security_header) =>
                   /\ fn[2].result.header_valid
                   /\ fn[2].result.header_length = 80
                   /\ fn[2].result.key_hash_bits = SubSeq(security_header, 1, 32)
                   /\ fn[2].result.key_hash_int = fingerprint
                   /\ fn[2].result.timestamp = a.timestamp
                   /\ fn[2].result.checksum = checksum

\* The header of the largest timestamp, 2^32 - 1, parsed back whole.
C19_Witness ==
    /\ Len(fn) = 2
    /\ fn[1].op = "add_security_header"
    /\ fn[1].args.timestamp = <<65535, 65535>>
    /\ fn[1].args.key_hash = KEY_A
    /\ fn[2].op = "parse_security_header"
    /\ Len(fn[2].args.extracted_bits) = 80
    /\ fn[2].result.header_valid
    /\ fn[2].result.timestamp = <<65535, 65535>>
    /\ fn[2].result.key_hash_int = ToWide(Sha256Prefix32(KEY_A))

(***************************************************************************)
(* C20.  A short security header is a hard error: with fewer than 80 bits  *)
(* (an image of fewer than 80 pixels) parse_security_header reports        *)
(* header_valid = false, validate_embedded_security on such a header       *)
(* returns every check false and the score 0, and                          *)
(* extract_secure_qr_from_image reports failure, reconstructing no matrix  *)
(* and producing no validation pass.                                       *)
(***************************************************************************)
C20_ShortSecurityHeader ==
    /\ (/\ LastCallOf("parse_security_header")
        /\ Len(LastCall.args.extracted_bits) < 80)
           => ~LastCall.result.header_valid
    /\ (/\ LastCallOf("validate_embedded_security")
        /\ Len(fn[2].args.extracted_bits) < 80)
           => /\ LastCall.args.extracted_header = fn[2].result
              /\ ~LastCall.result.key_valid
              /\ ~LastCall.result.timestamp_valid
              /\ ~LastCall.result.checksum_valid
              /\ ~LastCall.result.overall_valid
              /\ LastCall.result.security_score = 0
    /\ (/\ LastCallOf("extract_secure_qr_from_image")
        /\ LastCall.args.stego.w * LastCall.args.stego.h < 80)
           => /\ LastCall.result.outcome = "failure"
              /\ LastCall.result.qr = NoMatrix
              /\ ~LastCall.result.validation.overall_valid
              /\ LastCall.result.validation.security_score = 0

\* 79 of the 80 bits of a header made with the key the validation is given
\* and a timestamp an hour before it, then the extraction from a 79-pixel
\* image.
C20_Witness ==
    /\ Len(fn) = 4
    /\ fn[1].args.key_hash = KEY_A
    /\ fn[1].args.timestamp = ToWide(1700000000)
    /\ Len(fn[2].args.extracted_bits) = 79
    /\ ~fn[2].result.header_valid
    /\ fn[3].op = "validate_embedded_security"
    /\ fn[3].args.document_key = KEY_A
    /\ fn[3].result.security_score = 0
    /\ fn[4].op = "extract_secure_qr_from_image"
    /\ fn[4].args.stego.w = 79 /\ fn[4].args.stego.h = 1
    /\ fn[4].result.outcome = "failure"

(***************************************************************************)
(* C21.  Secure round trip and layout: for a cover with W*H >= 120 + w*h,  *)
(* embed_secure_qr_to_image writes the stream of the 80 security-header    *)
(* bits, the 16-bit width, the 16-bit height, 8 zero bits and the w*h      *)
(* payload bits into the blue LSBs in raster order and saves the image     *)
(* (also when W*H = 120 + w*h), and extract_secure_qr_from_image on that   *)
(* image returns success with the dimensions (w, h) and a matrix equal     *)
(* cell by cell to the embedded one; with W*H < 120 + w*h the embedding    *)
(* reports failure and writes nothing.                                     *)
(***************************************************************************)
C21_SecureRoundTrip ==
    emb.op = "embed_secure_qr_to_image" =>
        LET n == qr.w * qr.h
            payload == [k \in 1..n |-> IF qr.cells[k] = 0 THEN 1 ELSE 0]
            stream == add_security_header(payload, emb.key, ToWide(emb.ts))
                        \o _int_to_binary(qr.w, 16) \o _int_to_binary(qr.h, 16)
                        \o Zeros(8) \o payload
        IN  IF cover.w * cover.h >= 120 + n
            THEN /\ emb.outcome = "saved"
                 /\ stego.exists
                 /\ Len(stream) = 120 + n
                 /\ flips = {} =>
                      /\ SubSeq(BlueLsbs(stego), 1, 120 + n) = stream
                      /\ (ext.op = "extract_secure_qr_from_image") =>
                           /\ ext.result.outcome = "saved"
                           /\ ext.result.qr_width = qr.w
                           /\ ext.result.qr_height = qr.h
                           /\ ext.result.qr = qr
            ELSE /\ emb.outcome = "failure"
                 /\ stego = NoFile

\* The exact fit: a 1 x 1 matrix in an 11 x 11 cover (121 = 120 + 1),
\* embedded, saved and extracted.
C21_Witness ==
    /\ emb.op = "embed_secure_qr_to_image"
    /\ cover.w = 11 /\ cover.h = 11
    /\ qr.w = 1 /\ qr.h = 1
    /\ emb.outcome = "saved"
    /\ emb.nbits = 121
    /\ flips = {}
    /\ ext.op = "extract_secure_qr_from_image"
    /\ ext.result.outcome = "saved"
    /\ ext.result.qr = qr

(***************************************************************************)
(* C23.  Embedding never ends silently without output: whenever the        *)
(* capacity check passes (40 + w*h <= W*H, equality included, as for a     *)
(* 41-pixel cover and a 1 x 1 matrix), embed_qr_to_image saves the stego   *)
(* image holding all header and payload bits before it returns; it never   *)
(* returns normally without having written the output file, and            *)
(* embed_qr_to_image_secure in standard mode returns success = true only   *)
(* when that file was written.                                             *)
(***************************************************************************)
C23_NeverSilent ==
    /\ LastCallOf("embed_qr_to_image") =>
         LET a == LastCall.args
             r == LastCall.result
             n == a.qr.w * a.qr.h
             data_bits == _int_to_binary(a.qr.w, 16) \o _int_to_binary(a.qr.h, 16)
                            \o Zeros(8)
                            \o [k \in 1..n |-> IF a.qr.cells[k] = 0 THEN 1 ELSE 0]
         IN  /\ r.outcome # "returned_unsaved"
             /\ 40 + n <= a.cover.w * a.cover.h =>
                  /\ r.outcome = "saved"
                  /\ SubSeq(BlueLsbs(r.image), 1, 40 + n) = data_bits
    /\ (/\ LastCallOf("embed_qr_to_image_secure")
        /\ LastCall.args.security_key = NoSecurityKey
        /\ ~LastCall.result.raised
        /\ LastCall.result.success)
           => LastCall.result.file # NoFile

(***************************************************************************)
(* C24.  Frame of embedding: with N the number of embedded bits, the stego *)
(* image differs from the cover at most in the least-significant bit of    *)
(* the blue channel of the first N pixels in raster order (index y*W + x); *)
(* red and green of every pixel, the upper 7 bits of every blue value and  *)
(* every pixel of index N or more are those of the cover, and the LSB      *)
(* extracted from an embedded channel is the bit that was embedded.        *)
(***************************************************************************)
C24_EmbeddingFrame ==
    (/\ emb.op \in {"embed_qr_to_image", "embed_secure_qr_to_image"}
     /\ emb.outcome = "saved"
     /\ ext.op = "none"
     /\ flips = {}) =>
        LET N == emb.nbits
        IN  /\ stego.exists
            /\ stego.w = cover.w /\ stego.h = cover.h
            /\ Len(stego.px) = Len(cover.px)
            /\ N = Len(emb.bits) /\ N <= Len(cover.px)
            /\ \A y \in 0..(cover.h - 1), x \in 0..(cover.w - 1) :
                 LET index == y * cover.w + x
                     before == getpixel(cover, x, y)
                     after == getpixel(stego, x, y)
                 IN  /\ after[1] = before[1]
                     /\ after[2] = before[2]
                     /\ after[3] \div 2 = before[3] \div 2
                     /\ index >= N => after = before
                     /\ index < N => _extract_lsb(after[3]) = emb.bits[index + 1]
            /\ \A value \in 0..255, bit \in {0, 1} :
                 /\ _embed_bit(value, bit) \div 2 = value \div 2
                 /\ _extract_lsb(_embed_bit(value, bit)) = bit

\* A 2 x 2 mixed matrix in the 9 x 5 cover: 44 bits, some of which differ
\* from the LSB the cover had, and one pixel left as it was.
C24_Witness ==
    /\ emb.op = "embed_qr_to_image"
    /\ emb.outcome = "saved"
    /\ ext.op = "none"
    /\ flips = {}
    /\ cover.w = 9 /\ cover.h = 5
    /\ emb.nbits = 44
    /\ \E k \in 1..44 : stego.px[k] # cover.px[k]
    /\ \E k \in 1..44 : stego.px[k] = cover.px[k]
    /\ stego.px[45] = cover.px[45]

(***************************************************************************)
(* C25.  Fallback of the wrappers with an optional key: when a             *)
(* security_key is given and the secure operation fails (a cover too small *)
(* for 120 + w*h bits, or no valid security header in the image),          *)
(* embed_qr_to_image_secure falls back to the standard embedding and       *)
(* extract_qr_from_image_secure to the standard extraction, and they       *)
(* return the result of the standard mode (security_mode = false).         *)
(***************************************************************************)
C25_SecureFallback ==
    /\ (/\ LastCallOf("embed_qr_to_image_secure")
        /\ LastCall.args.security_key # NoSecurityKey
        /\ embed_secure_qr_to_image(
               LastCall.args.cover, EncodedNameMatrix,
               LastCall.args.security_key,
               LastCall.args.current_timestamp).outcome # "saved")
           => LastCall.result =
                  embed_qr_to_image_secure(
                      LastCall.args.cover, LastCall.args.qr, NoSecurityKey,
                      LastCall.args.resize_qr_if_needed,
                      LastCall.args.current_timestamp)
    /\ (/\ LastCallOf("extract_qr_from_image_secure")
        /\ LastCall.args.security_key # NoSecurityKey
        /\ extract_secure_qr_from_image(
               LastCall.args.stego, LastCall.args.security_key,
               LastCall.args.current_time).outcome # "saved")
           => LastCall.result =
                  extract_qr_from_image_secure(
                      LastCall.args.stego, NoSecurityKey,
                      LastCall.args.current_time)

(***************************************************************************)
(* Shorthands for the properties of the key store.                         *)
(***************************************************************************)
\* The operation op has just returned without an exception.
Returned(op) ==
    done.call.op = op /\ done.result.outcome # "SecurityStorageError"

AllIdle == \A t \in AllThreads : worker[t].pc = "idle"

C26_LoadTerminates ==
    done.call.op # "none" =>
        LET l == _load_storage_data(done.file_before)
        IN  /\ ~l.raised
            /\ done.loaded = l.data
            /\ DOMAIN done.loaded.documents = Hashes
            /\ done.file_before.kind = "not_a_store" => done.loaded = FreshStore
            /\ done.file_before.kind = "not_json" =>
                 /\ done.loaded = FreshStore
                 /\ corrupted

(***************************************************************************)
(* C28.  In-process serialisation of the key store: the operations called  *)
(* concurrently by threads of one process run their load-modify-save       *)
(* sequence under _storage_lock without interleaving: at most one thread   *)
(* of a process is between its load and the end of its save, it holds the  *)
(* lock, and the file it will replace is still the one it loaded; so two   *)
(* stores of different hashes both end up in the storage file (no lost     *)
(* update), and metadata.total_documents is the number of stored documents *)
(* after every save.                                                       *)
(***************************************************************************)
C28_InProcessSerialisation ==
    /\ \A t \in Threads, u \in Threads :
          (t # u /\ ProcessOf(t) = ProcessOf(u)) =>
              (worker[t].pc = "idle" \/ worker[u].pc = "idle")
    /\ \A t \in Threads :
          /\ worker[t].pc # "idle" => _storage_lock[ProcessOf(t)] = t
          /\ worker[t].pc = "remove" =>
                \/ sfile = worker[t].loaded
                \/ sfile = AbsentFile /\ worker[t].loaded = FreshStore
          /\ worker[t].pc = "rename" => sfile = AbsentFile
    /\ sfile.kind = "store" =>
          sfile.total_documents = Cardinality(DocumentHashes(sfile))
    /\ AllIdle =>
          \A h \in Hashes :
              ledger[h].state = "counted" =>
                  /\ sfile.documents[h].present
                  /\ sfile.documents[h].document_key = ledger[h].key

\* the store of h2 by thread t2 has returned, and the h1 stored by thread t1
\* is in the file beside it
C28_Witness ==
    /\ done.t = "t2"
    /\ done.call.op = "store_document_key"
    /\ done.result.outcome = "True"
    /\ ledger["h1"].state = "counted"
    /\ ledger["h2"].state = "counted"
    /\ DocumentHashes(sfile) = {"h1", "h2"}
    /\ sfile.total_documents = 2

C29_ExpiryByLastAccess ==
    (done.call.op = "cleanup_expired_keys"
        /\ ~_load_storage_data(done.file_before).raised) =>
        LET date(h) == LastAccessedStr(done.loaded.documents[h])
            due == {h \in DocumentHashes(done.loaded) :
                       \/ date(h).form = "unparsable"
                       \/ /\ date(h).form \in {"naive", "aware"}
                          /\ date(h).day < done.now - done.call.days}
        IN  /\ done.result.outcome = "stats"
            /\ done.result.removed = due
            /\ \A h \in DocumentHashes(done.loaded) :
                  (date(h).form = "naive"
                      /\ done.now - date(h).day < done.call.days) =>
                          h \notin done.result.removed
            /\ done.result.stats.documents_removed =
                   Cardinality(done.result.removed)
            /\ done.result.stats.documents_remaining =
                   done.result.stats.total_documents_before
                       - done.result.stats.documents_removed
            /\ AllIdle =>
                  DocumentHashes(sfile) =
                      DocumentHashes(done.loaded) \ done.result.removed

(***************************************************************************)
(* C27.  Atomic replace of the storage file: while _save_storage_data of a *)
(* non-empty store is in progress, a concurrent _load_storage_data in      *)
(* another process never observes the storage file as absent or partially  *)
(* written, so it never returns an empty store, and a following            *)
(* store_document_key of that process never drops the existing entries.    *)
(***************************************************************************)
C27_AtomicReplace ==
    /\ \A t \in AllThreads :
          (worker[t].pc # "idle" /\ worker[t].during_save) =>
              /\ worker[t].file_before.kind = "store"
              /\ DocumentHashes(worker[t].loaded) # {}
    /\ (done.call.op # "none" /\ done.during_save) =>
          /\ done.file_before.kind = "store"
          /\ DocumentHashes(done.loaded) # {}
    /\ \A t \in AllThreads, u \in AllThreads :
          (/\ ProcessOf(t) # ProcessOf(u)
           /\ worker[t].pc # "idle"
           /\ worker[t].during_save
           /\ worker[t].call.op = "store_document_key"
           /\ worker[u].pc \in {"remove", "rename"}) =>
              DocumentHashes(worker[u].loaded) \subseteq
                  DocumentHashes(worker[t].data)

=============================================================================
